---- MODULE Spec2Model ----
(***************************************************************************)
(* Model of azul3d/gfx window: the GLFW backed window of                   *)
(* src/window/glfwwindow.go (run loop, main-thread dispatcher, property    *)
(* reconciliation, event notification) and the interface documentation of  *)
(* src/unnamed/part_000.                                                   *)
(*                                                                         *)
(* Goroutines are the members of Threads; pc gives each one's position in  *)
(* the source.  The sync.RWMutex embedded in glfwWindow is the pair        *)
(* (writer, readers): a goroutine that has called Lock() is the writer     *)
(* from the moment it has announced itself (new readers then block, as in  *)
(* Go) and owns the lock once readers is empty.                            *)
(***************************************************************************)
EXTENDS Integers, Sequences, FiniteSets, TLC

\* ------------------------------------------------------------- bounds
\* API calls each application goroutine makes.
MaxCalls == 2
\* Subscriptions the registry holds at most.
MaxSubs == 2
\* calls of Notify each application goroutine makes, at most
MaxNotify == 3
\* Out-of-band events (user input, window manager) the native library sees at most.
MaxUser == 2

\* ---------------------------------------------------- program constants
RunOnMainCap == 32
ShutdownCap == 1
LoaderShutdownCap == 1

NoEvents == 0
CloseEvents == 1
DamagedEvents == 2
CursorMovedEvents == 4
MinimizedEvents == 32
RestoredEvents == 64
MovedEvents == 512
ResizedEvents == 1024
ItemsDroppedEvents == 4096
MouseEvents == 8192
KeyboardStateEvents == 65536

\* math.Inf(-1), the "no previous sample" value of lastCursorX/Y
NegInf == -1000000

\* ------------------------------------------------------------ goroutines
Main == "main"
Gfx == "gfx"
Loader == "loader"
Apps == {"a1", "a2"}
Threads == {Main, Gfx, Loader} \cup Apps
None == "none"

\* The asset loader goroutine, the goroutine in doExit and the goroutines that
\* ask the asset loader to drop its context.
AssetLoader == "assetLoader"
Exiter == "doExit"
Requesters == {"r1", "r2", "r3"}

VARIABLES
    pc,             \* position of every goroutine
    crashed,        \* an unrecovered panic ended the process
    calls,          \* per goroutine: API calls made
    narg,           \* per goroutine: the arguments of its running Notify
    writer,         \* RWMutex: goroutine that announced/holds Lock(), or None
    readers,        \* RWMutex: goroutines holding RLock()
    runOnMain,      \* w.runOnMain: the dispatcher queue
    enq,            \* per goroutine: work items enqueued so far
    cur,            \* the work item the run loop is executing
    executed,       \* per goroutine: its work items in execution order
    executors,      \* goroutines that have executed a work item
    doneCh,         \* per goroutine: waitFor's done channel
    shutdown,       \* w.shutdown: number of buffered shutdown signals
    loaderShutdown, \* loaderShutdown: number of buffered signals
    clipboard,      \* the native clipboard string
    nativeLog,      \* per goroutine: the native call it executed last
    props,          \* w.props: the requested properties
    last,           \* w.last: the last known native properties
    force,          \* useProps' force argument
    blk,            \* useProps: the property block being applied (0: none)
    locSize,        \* useProps' locals width, height
    applied,        \* native calls of the current useProps, in order
    lastCursor,     \* w.lastCursorX, w.lastCursorY
    nat,            \* the native window's actual state
    pending,        \* native events waiting for glfw.PollEvents()
    raised,         \* native events the running native call reports before it returns
    userActs,       \* out-of-band changes made so far
    monitor,        \* what monitor.GetVideoMode() returns
    ext,            \* extWGLEXTSwapControlTear, extGLXEXTSwapControlTear
    notifiers,      \* w.notifiers
    chans,          \* per subscriber channel: the buffered events
    lastRecv,       \* per subscriber channel: T of the event received last
    pubEv,          \* sendEvent's ev
    pubMask,        \* sendEvent's m
    pubIdx,         \* sendEvent's position in w.notifiers
    sent,           \* per channel: sends of the running sendEvent that succeeded
    dropped,        \* per channel: sends of the running sendEvent that were dropped
    clock,          \* time.Now()
    ret,            \* where the running native callback returns to
    sinceGrab,      \* whether useProps switched cursor grab on, and the last sample since
    fps,            \* renderer.Clock().FrameRate(), in halves of a frame per second
    watcher,        \* w.keyboard, w.mouse: the watchers' tables
    ctxCurrent,     \* the asset context is current on the asset loader's thread
    natTitle,       \* the title the native window was last given
    gi,             \* glfwinit.go: the globals, the library, the poller goroutines
    destroys,       \* how many times the run loop destroyed the native window
    hpc,            \* where the asset loader, doExit and each requester are
    ackedTo         \* the requester whose drop request the asset loader has taken

ctlVars == <<pc, crashed, calls, narg>>
lockVars == <<writer, readers>>
dispVars == <<runOnMain, enq, cur, executed, executors, doneCh>>
sigVars == <<shutdown, loaderShutdown>>
natVars == <<clipboard, nativeLog>>
propVars == <<props, last, force, blk, locSize, applied, lastCursor>>
envVars == <<nat, pending, raised, userActs, monitor, ext>>
regVars == <<notifiers, chans, lastRecv>>
pubVars == <<pubEv, pubMask, pubIdx, sent, dropped, clock, ret>>
pubVars_but_clock == <<pubEv, pubMask, pubIdx, sent, dropped, ret>>
hsVars == <<ctxCurrent, ackedTo, hpc>>
lateVars == <<gi, destroys>>
moreVars == <<sinceGrab, fps, watcher, natTitle, hsVars, lateVars>>
vars == <<ctlVars, lockVars, dispVars, sigVars, natVars, propVars, envVars, regVars,
          pubVars, moreVars>>

\* ------------------------------------------------------------- renderer
\* The frame rate the renderer's clock has measured, in halves: 42 per second.
DefaultRate == 84

\* int(math.Ceil(rate)) of a rate given in halves
Ceil(rate) == (rate + 1) \div 2

\* The text of a number of frames without rounding up.
fpsTextFloor(rate) == ToString(rate \div 2) \o "FPS"

\* fmt.Sprintf("%dFPS", int(math.Ceil(w.renderer.Clock().FrameRate())))
fpsText(rate) == ToString(Ceil(rate)) \o "FPS"

\* ------------------------------------------------------------- watchers
\* The keys and buttons watched, and the watchers' tables before any input:
\* every key and button is up (T: the time of the input that set the entry).
Watched == {"key", "button"}
NoWatch == [k \in Watched |-> [state |-> "Up", T |-> 0]]

\* ------------------------------------------------------------ properties
\* Props, by value: the fields useProps reconciles, and ShouldClose.
Unset == -1
NumBlocks == 7

\* A title is the sequence of the pieces of its text, "{FPS}" being a piece.
DefaultTitle == <<"Game ", "{FPS}">>

\* strings.Replace(title, "{FPS}", by, n): the first n placeholders replaced
RECURSIVE Replace(_, _, _)
Replace(title, by, n) ==
    IF title = <<>> THEN ""
    ELSE IF Head(title) = "{FPS}" /\ n > 0
         THEN by \o Replace(Tail(title), by, n - 1)
         ELSE Head(title) \o Replace(Tail(title), by, n)

\* updateTitle: the title given to w.window.SetTitle
updateTitle(title, rate) == Replace(title, fpsText(rate), 1)

MkProps(size, pos, cursor, visible, minimized, vsync, grabbed, shouldClose) ==
    [title |-> DefaultTitle, size |-> size, pos |-> pos, cursor |-> cursor,
     visible |-> visible, minimized |-> minimized, vsync |-> vsync,
     grabbed |-> grabbed, shouldClose |-> shouldClose]

BaseProps == MkProps(<<800, 600>>, <<10, 20>>, <<Unset, Unset>>, TRUE, FALSE, TRUE,
                     FALSE, TRUE)

\* What the application passes to Request while the run loop is studied.
RunProps == {BaseProps, [BaseProps EXCEPT !.shouldClose = FALSE, !.visible = FALSE]}

ClipStrings == {"x"}

\* ---------------------------------------------------------- sync.RWMutex
\* Lock(): announce (excludes other writers and new readers) ...
CanAnnounce == writer = None
\* ... then wait for the readers present to leave.
Owns(t) == writer = t /\ readers = {}
\* RLock() blocks while a writer holds or waits for the lock.
CanRLock == writer = None

\* ------------------------------------------------------------ work items
Item(kind, by, n, p, s) == [kind |-> kind, by |-> by, n |-> n, p |-> p, s |-> s]
NoItem == Item("none", None, 0, BaseProps, "")

\* runOnMain <- fn
Send(q, it) == Append(q, it)
\* fn := <-runOnMain
RecvIndexLast(q) == Len(q)
RecvIndex(q) == 1
Recv(q) ==
    [it |-> q[RecvIndex(q)],
     rest |-> [i \in 1..(Len(q) - 1) |-> IF i < RecvIndex(q) THEN q[i] ELSE q[i + 1]]]

Enqueue(a, kind, p, s) ==
    /\ Len(runOnMain) < RunOnMainCap
    /\ runOnMain' = Send(runOnMain, Item(kind, a, enq[a] + 1, p, s))
    /\ enq' = [enq EXCEPT ![a] = @ + 1]
    /\ UNCHANGED <<cur, executed, executors, doneCh>>

\* ------------------------------------------------- application goroutines
\* Window.Request(p)
Request(a, p) ==
    /\ ~crashed /\ pc[a] = "idle" /\ calls[a] < MaxCalls
    /\ Enqueue(a, "useProps", p, "")
    /\ calls' = [calls EXCEPT ![a] = @ + 1]
    /\ UNCHANGED <<pc, crashed, narg, lockVars, sigVars, natVars, propVars, envVars,
                   regVars, pubVars>>
    /\ UNCHANGED moreVars

\* Window.SetClipboard(clipboard)
SetClipboard(a, s) ==
    /\ ~crashed /\ pc[a] = "idle" /\ calls[a] < MaxCalls
    /\ Enqueue(a, "setClipboard", BaseProps, s)
    /\ calls' = [calls EXCEPT ![a] = @ + 1]
    /\ UNCHANGED <<pc, crashed, narg, lockVars, sigVars, natVars, propVars, envVars,
                   regVars, pubVars>>
    /\ UNCHANGED moreVars

\* Window.Clipboard(): w.RLock()
ClipboardRLock(a) ==
    /\ ~crashed /\ pc[a] = "idle" /\ calls[a] < MaxCalls
    /\ CanRLock
    /\ readers' = readers \cup {a}
    /\ pc' = [pc EXCEPT ![a] = "clip_enq"]
    /\ calls' = [calls EXCEPT ![a] = @ + 1]
    /\ UNCHANGED <<crashed, narg, writer, dispVars, sigVars, natVars, propVars,
                   envVars, regVars, pubVars>>
    /\ UNCHANGED moreVars

\* Window.Clipboard(): waitFor sends the work item
ClipboardEnqueue(a) ==
    /\ ~crashed /\ pc[a] = "clip_enq"
    /\ Enqueue(a, "waitFor", BaseProps, "")
    /\ pc' = [pc EXCEPT ![a] = "clip_wait"]
    /\ UNCHANGED <<crashed, calls, narg, lockVars, sigVars, natVars, propVars,
                   envVars, regVars, pubVars>>
    /\ UNCHANGED moreVars

\* Window.Clipboard(): <-done, w.RUnlock(), return str
ClipboardReturn(a) ==
    /\ ~crashed /\ pc[a] = "clip_wait"
    /\ doneCh[a] > 0
    /\ doneCh' = [doneCh EXCEPT ![a] = @ - 1]
    /\ readers' = readers \ {a}
    /\ pc' = [pc EXCEPT ![a] = "idle"]
    /\ UNCHANGED <<crashed, calls, narg, writer, runOnMain, enq, cur, executed,
                   executors, sigVars, natVars, propVars, envVars, regVars, pubVars>>
    /\ UNCHANGED moreVars

\* Window.Close()
Close(a) ==
    /\ ~crashed /\ pc[a] = "idle" /\ calls[a] < MaxCalls
    /\ shutdown < ShutdownCap
    /\ shutdown' = shutdown + 1
    /\ calls' = [calls EXCEPT ![a] = @ + 1]
    /\ UNCHANGED <<pc, crashed, narg, lockVars, dispVars, loaderShutdown, natVars,
                   propVars, envVars, regVars, pubVars>>
    /\ UNCHANGED moreVars

\* --------------------------------------------------- notification registry
Chans == {"c1", "c2"}
\* make(chan Event, n): the capacity is the subscriber's choice.
CapC1 == 1
CapC2 == 2
\* How many calls of doInit and doExit are followed.
MaxInitCalls == 4
\* make(chan struct{}, 1)
PollerExitCap == 1
ChanCap(c) == IF c = "c1" THEN CapC1 ELSE CapC2

\* The masks the application subscribes with, and the masks of the events the
\* native library reports while the registry is studied.
SubMasks == {CloseEvents, CloseEvents + DamagedEvents}

RECURSIVE BitAnd(_, _)
\* nf.EventMask & m
BitAnd(a, b) ==
    IF a = 0 \/ b = 0 THEN 0
    ELSE (a % 2) * (b % 2) + 2 * BitAnd(a \div 2, b \div 2)

Notifier(m, ch) == [mask |-> m, ch |-> ch]
Event(type, t, val) == [type |-> type, T |-> t, val |-> val]
NoEvent == Event(NoEvents, 0, <<>>)

\* findNotifier: the first index of a notifier of ch; 0 stands for Go's -1
\* (indices are 1-based here).
findNotifier(arr, ch) ==
    IF \E i \in 1..Len(arr) : arr[i].ch = ch
    THEN CHOOSE i \in 1..Len(arr) :
            arr[i].ch = ch /\ \A j \in 1..(i - 1) : arr[j].ch # ch
    ELSE 0

RECURSIVE deleteLoop(_, _, _)
\* The loop of deleteNotifiers.  arr is w.notifiers, which the loop never
\* reassigns: findNotifier keeps searching its full length, while s (its first n
\* elements, the same backing array) shrinks; append(s[:idx], s[idx+1:]...)
\* moves the tail of s down in that array.  s[idx+1:] panics when idx+1 > len(s).
deleteLoop(arr, n, ch) ==
    LET idx == findNotifier(arr, ch) IN
    IF idx = 0 THEN [panic |-> FALSE, s |-> SubSeq(arr, 1, n)]
    ELSE IF idx > n THEN [panic |-> TRUE, s |-> arr]
    ELSE deleteLoop([i \in 1..Len(arr) |-> IF i >= idx /\ i < n THEN arr[i + 1] ELSE arr[i]],
                    n - 1, ch)

\* A deleteNotifiers that removes the first notifier of ch only.
deleteFirst(s, ch) ==
    LET idx == findNotifier(s, ch) IN
    [panic |-> FALSE,
     s |-> IF idx = 0 THEN s
           ELSE [i \in 1..(Len(s) - 1) |-> IF i < idx THEN s[i] ELSE s[i + 1]]]

deleteNotifiers(s, ch) == deleteLoop(s, Len(s), ch)

\* A subscribe that keeps one notifier per channel.
subscribeOnce(s, ch, m) ==
    IF findNotifier(s, ch) # 0 THEN s ELSE Append(s, Notifier(m, ch))

\* w.notifiers = append(w.notifiers, notifier{m, ch})
subscribe(s, ch, m) == Append(s, Notifier(m, ch))

\* Window.Notify(ch, m): w.Lock()
NotifyLock(a, ch, m) ==
    /\ ~crashed /\ pc[a] = "idle" /\ calls[a] < MaxNotify
    /\ m # NoEvents => Len(notifiers) < MaxSubs
    /\ CanAnnounce
    /\ writer' = a
    /\ pc' = [pc EXCEPT ![a] = "notify"]
    /\ narg' = [narg EXCEPT ![a] = Notifier(m, ch)]
    /\ calls' = [calls EXCEPT ![a] = @ + 1]
    /\ UNCHANGED <<crashed, readers, dispVars, sigVars, natVars, propVars, envVars,
                   regVars, pubVars>>
    /\ UNCHANGED moreVars

\* Window.Notify(ch, NoEvents), holding the lock: deleteNotifiers, w.Unlock().
\* A panic of deleteNotifiers leaves the lock held and ends the process.
NotifyDelete(a) ==
    /\ ~crashed /\ pc[a] = "notify" /\ Owns(a)
    /\ narg[a].mask = NoEvents
    /\ LET r == deleteNotifiers(notifiers, narg[a].ch) IN
        /\ notifiers' = r.s
        /\ crashed' = r.panic
        /\ writer' = IF r.panic THEN writer ELSE None
        /\ pc' = [pc EXCEPT ![a] = IF r.panic THEN "panicked" ELSE "idle"]
    /\ UNCHANGED <<calls, narg, readers, dispVars, sigVars, natVars, propVars,
                   envVars, chans, lastRecv, pubVars>>
    /\ UNCHANGED moreVars

\* Window.Notify(ch, m), m # NoEvents, holding the lock: append, w.Unlock()
NotifyAppend(a) ==
    /\ ~crashed /\ pc[a] = "notify" /\ Owns(a)
    /\ narg[a].mask # NoEvents
    /\ notifiers' = subscribe(notifiers, narg[a].ch, narg[a].mask)
    /\ writer' = None
    /\ pc' = [pc EXCEPT ![a] = "idle"]
    /\ UNCHANGED <<crashed, calls, narg, readers, dispVars, sigVars, natVars,
                   propVars, envVars, chans, lastRecv, pubVars>>
    /\ UNCHANGED moreVars

\* The subscriber receives from its channel: <-ch
Receive(c) ==
    /\ ~crashed /\ chans[c] # <<>>
    /\ lastRecv' = [lastRecv EXCEPT ![c] = Head(chans[c]).T]
    /\ chans' = [chans EXCEPT ![c] = Tail(@)]
    /\ UNCHANGED <<ctlVars, lockVars, dispVars, sigVars, natVars, propVars, envVars,
                   notifiers, pubVars>>
    /\ UNCHANGED moreVars

\* ---------------------------------------------------------------- sendEvent
Matches(nf, m) == BitAnd(nf.mask, m) # 0

\* A send that makes room by discarding the oldest buffered event.
sendEvict(buf, cap, ev) ==
    IF Len(buf) < cap THEN Append(buf, ev) ELSE Append(Tail(buf), ev)

\* A send that puts the event in front of the buffered ones.
sendFront(buf, cap, ev) ==
    IF Len(buf) < cap THEN <<ev>> \o buf ELSE buf

\* select { case nf.ch <- ev: default: }
trySend(buf, cap, ev) ==
    IF Len(buf) < cap THEN Append(buf, ev) ELSE buf

\* sendEvent(ev, m) is called by a callback: it returns to where the callback
\* was called from.
CallSendEvent(ev, m, from) ==
    /\ pubEv' = ev
    /\ pubMask' = m
    /\ ret' = from
    /\ pc' = [pc EXCEPT ![Main] = "send_rlock"]
    /\ UNCHANGED <<pubIdx, sent, dropped>>

\* sendEvent: w.RLock()
SendRLock ==
    /\ ~crashed /\ pc[Main] = "send_rlock"
    /\ CanRLock
    /\ readers' = readers \cup {Main}
    /\ pubIdx' = 1
    /\ sent' = [c \in Chans |-> 0]
    /\ dropped' = [c \in Chans |-> 0]
    /\ pc' = [pc EXCEPT ![Main] = "send"]
    /\ UNCHANGED <<crashed, calls, narg, writer, dispVars, sigVars, natVars,
                   propVars, envVars, regVars, pubEv, pubMask, clock, ret>>
    /\ UNCHANGED moreVars

\* sendEvent: one iteration of the loop over w.notifiers
SendIter ==
    /\ ~crashed /\ pc[Main] = "send"
    /\ pubIdx <= Len(notifiers)
    /\ LET nf == notifiers[pubIdx]
           buf == trySend(chans[nf.ch], ChanCap(nf.ch), pubEv)
       IN IF Matches(nf, pubMask)
          THEN /\ chans' = [chans EXCEPT ![nf.ch] = buf]
               /\ IF Len(chans[nf.ch]) < ChanCap(nf.ch)
                  THEN /\ sent' = [sent EXCEPT ![nf.ch] = @ + 1]
                       /\ UNCHANGED dropped
                  ELSE /\ dropped' = [dropped EXCEPT ![nf.ch] = @ + 1]
                       /\ UNCHANGED sent
          ELSE UNCHANGED <<chans, sent, dropped>>
    /\ pubIdx' = pubIdx + 1
    /\ UNCHANGED <<ctlVars, lockVars, dispVars, sigVars, natVars, propVars, envVars,
                   notifiers, lastRecv, pubEv, pubMask, clock, ret>>
    /\ UNCHANGED moreVars

\* sendEvent: w.RUnlock(); the callback returns
SendEnd ==
    /\ ~crashed /\ pc[Main] = "send"
    /\ pubIdx > Len(notifiers)
    /\ readers' = readers \ {Main}
    /\ pc' = [pc EXCEPT ![Main] = ret]
    /\ UNCHANGED <<crashed, calls, narg, writer, dispVars, sigVars, natVars,
                   propVars, envVars, regVars, pubVars>>
    /\ UNCHANGED moreVars

\* --------------------------------------------------------- native library
\* The calls that concern the primary window or the library as a whole.
PrimaryCalls == {"SetTitle", "SetSize", "SetPosition", "SetCursorPosition", "Show",
                 "Hide", "Iconify", "Restore", "SwapInterval", "SetInputMode",
                 "SetClipboardString", "GetClipboardString", "PollEvents",
                 "SwapBuffers", "Destroy", "Terminate"}
\* The calls by which a goroutine makes or releases its own context.
ContextCalls == {"assets.MakeContextCurrent", "DetachCurrentContext"}

NoCallYet == "-"
\* Goroutine t executes a native call; of several in a row the last is kept.
Log(t, c) == [nativeLog EXCEPT ![t] = c]

NativeEvent(kind, val) == [kind |-> kind, val |-> val]

\* The native window after a call that changes it.
NativeAfter(n, call, arg) ==
    CASE call = "SetSize" -> [n EXCEPT !.size = arg]
      [] call = "SetPosition" -> [n EXCEPT !.pos = arg]
      [] call = "SetCursorPosition" -> [n EXCEPT !.cursor = arg]
      [] call = "Show" -> [n EXCEPT !.visible = TRUE]
      [] call = "Hide" -> [n EXCEPT !.visible = FALSE]
      [] call = "Iconify" -> [n EXCEPT !.minimized = TRUE]
      [] call = "Restore" -> [n EXCEPT !.minimized = FALSE]
      [] OTHER -> n

\* The events the native library raises for a call: one for the state it changed.
NativeRaises(n, call, arg) ==
    CASE call = "SetSize" /\ n.size # arg -> <<NativeEvent("size", arg)>>
      [] call = "SetPosition" /\ n.pos # arg -> <<NativeEvent("pos", arg)>>
      [] call = "SetCursorPosition" /\ n.cursor # arg -> <<NativeEvent("cursor", arg)>>
      [] call = "Iconify" /\ ~n.minimized -> <<NativeEvent("iconify", TRUE)>>
      [] call = "Restore" /\ n.minimized -> <<NativeEvent("iconify", FALSE)>>
      [] OTHER -> <<>>

\* The user or the window manager changes the window, or asks for something.
UserAct(kind, val) ==
    /\ ~crashed /\ userActs < MaxUser
    /\ pc[Main] # "returned"
    /\ userActs' = userActs + 1
    /\ nat' = CASE kind = "size" -> [nat EXCEPT !.size = val]
                [] kind = "pos" -> [nat EXCEPT !.pos = val]
                [] kind = "cursor" -> [nat EXCEPT !.cursor = val]
                [] kind = "iconify" -> [nat EXCEPT !.minimized = val]
                [] OTHER -> nat
    /\ pending' = Append(pending, NativeEvent(kind, val))
    /\ UNCHANGED <<ctlVars, lockVars, dispVars, sigVars, natVars, propVars, raised,
                   monitor, ext, regVars, pubVars>>
    /\ UNCHANGED moreVars

\* ------------------------------------------------------------------ doRun
\* The graphics loop returns.
GfxReturn ==
    /\ ~crashed /\ pc[Gfx] = "running"
    /\ pc' = [pc EXCEPT ![Gfx] = "returned"]
    /\ UNCHANGED <<crashed, calls, narg, lockVars, dispVars, sigVars, natVars,
                   propVars, envVars, regVars, pubVars>>
    /\ UNCHANGED moreVars

\* The graphics loop panics: the deferred function recovers, calls
\* glfw.Terminate() and panics again, which ends the process.
GfxPanic ==
    /\ ~crashed /\ pc[Gfx] = "running"
    /\ nativeLog' = Log(Gfx, "Terminate")
    /\ pc' = [pc EXCEPT ![Gfx] = "panicked"]
    /\ crashed' = TRUE
    /\ UNCHANGED <<calls, narg, lockVars, dispVars, sigVars, clipboard,
                   propVars, envVars, regVars, pubVars>>
    /\ UNCHANGED moreVars

\* The loader goroutine: assets.MakeContextCurrent()
LoaderStart ==
    /\ ~crashed /\ pc[Loader] = "start"
    /\ nativeLog' = Log(Loader, "assets.MakeContextCurrent")
    /\ pc' = [pc EXCEPT ![Loader] = "loop"]
    /\ UNCHANGED <<crashed, calls, narg, lockVars, dispVars, sigVars, clipboard, propVars, envVars, regVars, pubVars>>
    /\ UNCHANGED moreVars

\* The loader goroutine: <-loaderShutdown, return (glfw.DetachCurrentContext())
LoaderExit ==
    /\ ~crashed /\ pc[Loader] = "loop"
    /\ loaderShutdown > 0
    /\ loaderShutdown' = loaderShutdown - 1
    /\ nativeLog' = Log(Loader, "DetachCurrentContext")
    /\ pc' = [pc EXCEPT ![Loader] = "returned"]
    /\ UNCHANGED <<crashed, calls, narg, lockVars, dispVars, shutdown, clipboard, propVars, envVars, regVars, pubVars>>
    /\ UNCHANGED moreVars

\* case <-updateFPS:
MainTick ==
    /\ ~crashed /\ pc[Main] = "select"
    /\ pc' = [pc EXCEPT ![Main] = "tick_lock"]
    /\ UNCHANGED <<crashed, calls, narg, lockVars, dispVars, sigVars, natVars,
                   propVars, envVars, regVars, pubVars>>
    /\ UNCHANGED moreVars

\* w.Lock()
TickLock ==
    /\ ~crashed /\ pc[Main] = "tick_lock"
    /\ CanAnnounce
    /\ writer' = Main
    /\ pc' = [pc EXCEPT ![Main] = "tick"]
    /\ UNCHANGED <<crashed, calls, narg, readers, dispVars, sigVars, natVars,
                   propVars, envVars, regVars, pubVars>>
    /\ UNCHANGED moreVars

\* w.updateTitle(); w.Unlock()
TickBody ==
    /\ ~crashed /\ pc[Main] = "tick"
    /\ Owns(Main)
    /\ nativeLog' = Log(Main, "SetTitle")
    /\ writer' = None
    /\ pc' = [pc EXCEPT ![Main] = "select"]
    /\ UNCHANGED <<crashed, calls, narg, readers, dispVars, sigVars, clipboard, propVars, envVars, regVars, pubVars>>
    /\ natTitle' = updateTitle(props.title, fps)
    /\ UNCHANGED <<sinceGrab, fps, watcher, hsVars, lateVars>>

\* A shutdown case without its return: the loop goes on.
AfterShutdownLoop(at) == at

\* return: doRun is left from wherever the run loop was
AfterShutdown(at) == "returned"

\* case <-w.shutdown: loaderShutdown <- true; w.window.Destroy(); return, and the
\* deferred glfw.DetachCurrentContext() and glfw.Terminate()
MainShutdown ==
    /\ ~crashed /\ pc[Main] = "select"
    /\ shutdown > 0
    /\ loaderShutdown < LoaderShutdownCap
    /\ shutdown' = shutdown - 1
    /\ loaderShutdown' = loaderShutdown + 1
    /\ nativeLog' = Log(Main, "Terminate")
    /\ pc' = [pc EXCEPT ![Main] = AfterShutdown(@)]
    /\ UNCHANGED <<crashed, calls, narg, lockVars, dispVars, clipboard,
                   propVars, envVars, regVars, pubVars>>
    /\ destroys' = destroys + 1
    /\ UNCHANGED <<sinceGrab, fps, watcher, natTitle, hsVars, gi>>

\* case fn := <-w.runOnMain: fn()
MainRecv ==
    /\ ~crashed /\ pc[Main] = "select"
    /\ runOnMain # <<>>
    /\ LET r == Recv(runOnMain) IN
        /\ cur' = r.it
        /\ runOnMain' = r.rest
        /\ executed' = [executed EXCEPT ![r.it.by] = Append(@, r.it.n)]
        /\ executors' = executors \cup {Main}
        /\ force' = IF r.it.kind = "useProps" THEN FALSE ELSE force
        /\ pc' = [pc EXCEPT ![Main] =
                    CASE r.it.kind = "useProps" -> "up_lock"
                      [] r.it.kind = "setClipboard" -> "sc_lock"
                      [] OTHER -> "wait_f"]
    /\ UNCHANGED <<crashed, calls, narg, lockVars, enq, doneCh, sigVars, natVars,
                   props, last, blk, locSize, applied, lastCursor, envVars, regVars,
                   pubVars>>
    /\ UNCHANGED moreVars

\* The work item of SetClipboard: w.Lock()
SetClipLock ==
    /\ ~crashed /\ pc[Main] = "sc_lock"
    /\ CanAnnounce
    /\ writer' = Main
    /\ pc' = [pc EXCEPT ![Main] = "sc"]
    /\ UNCHANGED <<crashed, calls, narg, readers, dispVars, sigVars, natVars,
                   propVars, envVars, regVars, pubVars>>
    /\ UNCHANGED moreVars

\* The work item of SetClipboard: w.window.SetClipboardString(clipboard); w.Unlock()
SetClipBody ==
    /\ ~crashed /\ pc[Main] = "sc"
    /\ Owns(Main)
    /\ clipboard' = cur.s
    /\ nativeLog' = Log(Main, "SetClipboardString")
    /\ writer' = None
    /\ pc' = [pc EXCEPT ![Main] = "select"]
    /\ UNCHANGED <<crashed, calls, narg, readers, dispVars, sigVars,
                   propVars, envVars, regVars, pubVars>>
    /\ UNCHANGED moreVars

\* The work item of waitFor: f() (str, _ = w.window.GetClipboardString());
\* done <- true
WaitForBody ==
    /\ ~crashed /\ pc[Main] = "wait_f"
    /\ nativeLog' = Log(Main, "GetClipboardString")
    /\ doneCh' = [doneCh EXCEPT ![cur.by] = @ + 1]
    /\ pc' = [pc EXCEPT ![Main] = "select"]
    /\ UNCHANGED <<crashed, calls, narg, lockVars, runOnMain, enq, cur, executed,
                   executors, sigVars, clipboard, propVars, envVars, regVars, pubVars>>
    /\ UNCHANGED moreVars

\* case fn := <-r.RenderExec: fn(); when a frame was rendered,
\* window.SwapBuffers() and glfw.PollEvents()
MainRender(renderedFrame) ==
    /\ ~crashed /\ pc[Main] = "select"
    /\ IF renderedFrame
       THEN /\ nativeLog' = Log(Main, "PollEvents")
            /\ pc' = [pc EXCEPT ![Main] = "poll"]
       ELSE UNCHANGED <<nativeLog, pc>>
    /\ UNCHANGED <<crashed, calls, narg, lockVars, dispVars, sigVars, clipboard, propVars, envVars, regVars, pubVars>>
    /\ UNCHANGED moreVars

\* glfw.PollEvents() returns
PollReturn ==
    /\ ~crashed /\ pc[Main] = "poll"
    /\ pc' = [pc EXCEPT ![Main] = "select"]
    /\ UNCHANGED <<crashed, calls, narg, lockVars, dispVars, sigVars, natVars,
                   propVars, envVars, regVars, pubVars>>
    /\ UNCHANGED moreVars

\* -------------------------------------------------------------- callbacks
\* The native library calls back on the run-loop thread: from inside
\* glfw.PollEvents() for the events that wait, and from inside a call that
\* changes the window for the events that call reports itself.
Arriving == IF pc[Main] = "poll" THEN pending ELSE raised

\* A callback is entered for the oldest such event: time.Now() advances.
Enter(kind) ==
    /\ ~crashed
    /\ \/ /\ pc[Main] = "poll"
          /\ pending # <<>> /\ Head(pending).kind = kind
          /\ pending' = Tail(pending)
          /\ UNCHANGED raised
       \/ /\ pc[Main] = "incall"
          /\ raised # <<>> /\ Head(raised).kind = kind
          /\ raised' = Tail(raised)
          /\ UNCHANGED pending
    /\ clock' = clock + 1
    /\ UNCHANGED <<crashed, calls, narg, dispVars, sigVars, natVars, nat, userActs,
                   monitor, ext, regVars>>

\* A should-close flag that is never set.
ShouldCloseNever(p) == FALSE

\* w.Props().ShouldClose()
ShouldClose(p) == p.shouldClose

\* SetCloseCallback: w.Props().ShouldClose(), then w.Close() or sendEvent
CloseCallback ==
    /\ Enter("close")
    /\ CanRLock
    /\ IF ShouldClose(props)
       THEN /\ pc' = [pc EXCEPT ![Main] = "close_send"]
            /\ ret' = pc[Main]
            /\ UNCHANGED <<pubEv, pubMask, pubIdx, sent, dropped>>
       ELSE CallSendEvent(Event(CloseEvents, clock', <<>>), CloseEvents, pc[Main])
    /\ UNCHANGED <<lockVars, propVars>>
    /\ UNCHANGED moreVars

\* SetCloseCallback: w.Close() sends on w.shutdown, and the callback returns
CloseCallbackSend ==
    /\ ~crashed /\ pc[Main] = "close_send"
    /\ shutdown < ShutdownCap
    /\ shutdown' = shutdown + 1
    /\ pc' = [pc EXCEPT ![Main] = ret]
    /\ UNCHANGED <<crashed, calls, narg, lockVars, dispVars, loaderShutdown, natVars,
                   propVars, envVars, regVars, pubVars>>
    /\ UNCHANGED moreVars

\* SetRefreshCallback
RefreshCallback ==
    /\ Enter("refresh")
    /\ CallSendEvent(Event(DamagedEvents, clock', <<>>), DamagedEvents, pc[Main])
    /\ UNCHANGED <<lockVars, propVars>>
    /\ UNCHANGED moreVars

\* SetDropCallback
DropCallback ==
    /\ Enter("drop")
    /\ CallSendEvent(Event(ItemsDroppedEvents, clock', Head(Arriving).val),
                     ItemsDroppedEvents, pc[Main])
    /\ UNCHANGED <<lockVars, propVars>>
    /\ UNCHANGED moreVars

\* convertKeyAction: glfw.Press is keyboard.Down, glfw.Release keyboard.Up
convertKeyAction(action) == IF action = "Press" THEN "Down" ELSE "Up"

\* convertMouseAction: glfw.Press is mouse.Down, glfw.Release mouse.Up
convertMouseAction(action) == IF action = "Press" THEN "Down" ELSE "Up"

\* A watcher whose table is not written.
setStateNot(w, k, st, t) == w

\* w.keyboard.SetState(k, s), w.mouse.SetState(b, s): the entry is written (t,
\* the time of the input, is kept with it to tell which input wrote it)
setState(w, k, st, t) == [w EXCEPT ![k] = [state |-> st, T |-> t]]

\* SetKeyCallback: nothing for a repeat; else the keyboard watcher is updated
\* and then keyboard.StateEvent is sent
KeyCallback ==
    /\ Enter("key")
    /\ LET action == Head(Arriving).val IN
       IF action = "Repeat"
       THEN UNCHANGED <<pc, pubVars_but_clock, watcher>>
       ELSE /\ watcher' = setState(watcher, "key", convertKeyAction(action), clock')
            /\ CallSendEvent(Event(KeyboardStateEvents, clock',
                                   <<convertKeyAction(action)>>),
                             KeyboardStateEvents, pc[Main])
    /\ UNCHANGED <<lockVars, propVars>>
    /\ UNCHANGED <<sinceGrab, fps, natTitle, lateVars, hsVars>>

\* SetMouseButtonCallback: the mouse watcher is updated and then mouse.Event
\* is sent
MouseButtonCallback ==
    /\ Enter("button")
    /\ LET action == Head(Arriving).val IN
        /\ watcher' = setState(watcher, "button", convertMouseAction(action), clock')
        /\ CallSendEvent(Event(MouseEvents, clock', <<convertMouseAction(action)>>),
                         MouseEvents, pc[Main])
    /\ UNCHANGED <<lockVars, propVars>>
    /\ UNCHANGED <<sinceGrab, fps, natTitle, lateVars, hsVars>>

\* A callback that stores only w.last.
storeLastOnly(field, val) ==
    /\ last' = [last EXCEPT ![field] = val]
    /\ UNCHANGED props

\* w.RLock(); w.last.SetX(val); w.props.SetX(val); w.RUnlock()
store(field, val) ==
    /\ last' = [last EXCEPT ![field] = val]
    /\ props' = [props EXCEPT ![field] = val]

\* SetSizeCallback
SizeCallback ==
    /\ Enter("size")
    /\ CanRLock
    /\ store("size", Head(Arriving).val)
    /\ CallSendEvent(Event(ResizedEvents, clock', Head(Arriving).val), ResizedEvents,
                     pc[Main])
    /\ UNCHANGED <<lockVars, force, blk, locSize, applied, lastCursor>>
    /\ UNCHANGED moreVars

\* SetPositionCallback
PositionCallback ==
    /\ Enter("pos")
    /\ CanRLock
    /\ store("pos", Head(Arriving).val)
    /\ CallSendEvent(Event(MovedEvents, clock', Head(Arriving).val), MovedEvents,
                     pc[Main])
    /\ UNCHANGED <<lockVars, force, blk, locSize, applied, lastCursor>>
    /\ UNCHANGED moreVars

\* SetIconifyCallback
IconifyCallback ==
    /\ Enter("iconify")
    /\ CanRLock
    /\ store("minimized", Head(Arriving).val)
    /\ IF Head(Arriving).val
       THEN CallSendEvent(Event(MinimizedEvents, clock', <<>>), MinimizedEvents,
                          pc[Main])
       ELSE CallSendEvent(Event(RestoredEvents, clock', <<>>), RestoredEvents,
                          pc[Main])
    /\ UNCHANGED <<lockVars, force, blk, locSize, applied, lastCursor>>
    /\ UNCHANGED moreVars

\* SetCursorPositionCallback
CursorPosCallback ==
    /\ Enter("cursor")
    /\ CanRLock
    /\ sinceGrab' = IF sinceGrab.on THEN [sinceGrab EXCEPT !.s = <<Head(Arriving).val>>]
                    ELSE sinceGrab
    /\ LET xy == Head(Arriving).val
           grabbed == props.grabbed
       IN IF grabbed
          THEN /\ lastCursor' = xy
               /\ UNCHANGED <<props, last>>
               /\ IF lastCursor[1] = NegInf /\ lastCursor[2] = NegInf
                  THEN UNCHANGED <<pc, pubEv, pubMask, pubIdx, sent, dropped, ret>>
                  ELSE CallSendEvent(
                           Event(CursorMovedEvents, clock',
                                 <<xy[1] - lastCursor[1], xy[2] - lastCursor[2], TRUE>>),
                           CursorMovedEvents, pc[Main])
          ELSE /\ store("cursor", xy)
               /\ UNCHANGED lastCursor
               /\ CallSendEvent(
                      Event(CursorMovedEvents, clock', <<xy[1], xy[2], FALSE>>),
                      CursorMovedEvents, pc[Main])
    /\ UNCHANGED <<lockVars, force, blk, locSize, applied>>
    /\ UNCHANGED <<fps, watcher, natTitle, lateVars, hsVars>>

\* --------------------------------------------------------------- useProps
Fields == <<"size", "pos", "cursor", "visible", "minimized", "vsync", "grabbed">>

\* A position block that passes the requested position as it is.
ResolvePosRaw(xy, wh) == xy

\* The position passed to win.SetPosition: (-1, -1) is resolved against the
\* primary monitor's video mode, unless GetVideoMode fails.
ResolvePos(xy, wh) ==
    IF xy[1] = Unset /\ xy[2] = Unset /\ monitor.ok
    THEN <<(monitor.size[1] \div 2) - (wh[1] \div 2),
           (monitor.size[2] \div 2) - (wh[2] \div 2)>>
    ELSE xy

\* A vsync block that knows nothing of adaptive vsync.
SwapIntervalStd(vsync) == IF vsync THEN 1 ELSE 0

\* The swap interval passed to glfw.SwapInterval.
SwapIntervalOf(vsync) ==
    IF vsync THEN (IF ext[1] \/ ext[2] THEN -1 ELSE 1) ELSE 0

NoCall == <<"none", <<>>>>

\* A useProps whose minimized block comes before its visibility block.
CallOfSwapped(k, v, wh) ==
    CASE k = 1 -> <<"SetSize", v>>
      [] k = 2 -> <<"SetPosition", ResolvePos(v, wh)>>
      [] k = 3 -> IF v[1] # Unset /\ v[2] # Unset
                  THEN <<"SetCursorPosition", v>> ELSE NoCall
      [] k = 4 -> IF v THEN <<"Iconify", <<>>>> ELSE <<"Restore", <<>>>>
      [] k = 5 -> IF v THEN <<"Show", <<>>>> ELSE <<"Hide", <<>>>>
      [] k = 6 -> <<"SwapInterval", SwapIntervalOf(v)>>
      [] OTHER -> <<"SetInputMode", v>>

\* The native call block k issues for the requested value v, as <<name, argument>>.
CallOf(k, v, wh) ==
    CASE k = 1 -> <<"SetSize", v>>
      [] k = 2 -> <<"SetPosition", ResolvePos(v, wh)>>
      [] k = 3 -> IF v[1] # Unset /\ v[2] # Unset
                  THEN <<"SetCursorPosition", v>> ELSE NoCall
      [] k = 4 -> IF v THEN <<"Show", <<>>>> ELSE <<"Hide", <<>>>>
      [] k = 5 -> IF v THEN <<"Iconify", <<>>>> ELSE <<"Restore", <<>>>>
      [] k = 6 -> <<"SwapInterval", SwapIntervalOf(v)>>
      [] OTHER -> <<"SetInputMode", v>>

\* Block 6 calls glfw.SwapInterval with the lock held; the others use withoutLock.
WithoutLock(k) == k # 6

\* A block that applies its field whether it differs or not.
needsAlways(field) == TRUE

\* if force || requested != last
needs(field) == force \/ props[field] # last[field]

\* w.last.SetX(requested)
setLast(field) == [last EXCEPT ![field] = props[field]]

\* A cursor-mode block that leaves the last cursor values as they are.
resetCursorNot(lc) == lc

\* w.lastCursorX = math.Inf(-1); w.lastCursorY = math.Inf(-1)
resetCursor(lc) == <<NegInf, NegInf>>

\* useProps: w.Lock()
UsePropsLock ==
    /\ ~crashed /\ pc[Main] = "up_lock"
    /\ CanAnnounce
    /\ writer' = Main
    /\ pc' = [pc EXCEPT ![Main] = "up_begin"]
    /\ UNCHANGED <<crashed, calls, narg, readers, dispVars, sigVars, natVars,
                   propVars, envVars, regVars, pubVars>>
    /\ UNCHANGED moreVars

\* useProps: w.props = p; w.updateTitle()
UsePropsBegin ==
    /\ ~crashed /\ pc[Main] = "up_begin"
    /\ Owns(Main)
    /\ props' = cur.p
    /\ nativeLog' = Log(Main, "SetTitle")
    /\ applied' = <<<<"SetTitle", <<>>>>>>
    /\ blk' = 1
    /\ pc' = [pc EXCEPT ![Main] = "up"]
    /\ UNCHANGED <<crashed, calls, narg, lockVars, dispVars, sigVars, clipboard, last, force, locSize, lastCursor, envVars, regVars,
                   pubVars>>
    /\ natTitle' = updateTitle(cur.p.title, fps)
    /\ UNCHANGED <<sinceGrab, fps, watcher, hsVars, lateVars>>

\* useProps: the block of one property
UseBlock ==
    /\ ~crashed /\ pc[Main] = "up" /\ blk <= NumBlocks
    /\ LET f == Fields[blk]
           wh == IF blk = 1 THEN props.size ELSE locSize
           call == CallOf(blk, props[f], wh)
           apply == needs(f)
           calling == apply /\ call # NoCall
       IN /\ locSize' = wh
          /\ last' = IF apply THEN setLast(f) ELSE last
          /\ lastCursor' = IF apply /\ blk = 7 THEN resetCursor(lastCursor) ELSE lastCursor
          /\ sinceGrab' = IF apply /\ blk = 7
                          THEN [on |-> props.grabbed, s |-> <<>>] ELSE sinceGrab
          /\ IF calling
             THEN /\ applied' = Append(applied, call)
                  /\ nativeLog' = Log(Main, call[1])
                  /\ nat' = NativeAfter(nat, call[1], call[2])
                  /\ \E sync \in BOOLEAN :
                        IF sync /\ WithoutLock(blk)
                        THEN /\ raised' = NativeRaises(nat, call[1], call[2])
                             /\ UNCHANGED pending
                        ELSE /\ pending' = pending \o NativeRaises(nat, call[1], call[2])
                             /\ UNCHANGED raised
             ELSE UNCHANGED <<applied, nativeLog, nat, pending, raised>>
          /\ IF calling /\ WithoutLock(blk)
             THEN /\ writer' = None
                  /\ pc' = [pc EXCEPT ![Main] = "incall"]
                  /\ UNCHANGED blk
             ELSE /\ blk' = blk + 1
                  /\ UNCHANGED <<writer, pc>>
    /\ UNCHANGED <<crashed, calls, narg, readers, dispVars, sigVars, clipboard, props, force, userActs, monitor, ext, regVars, pubVars>>
    /\ UNCHANGED <<fps, watcher, natTitle, lateVars, hsVars>>

\* withoutLock: f() returns
CallReturn ==
    /\ ~crashed /\ pc[Main] = "incall"
    /\ raised = <<>>
    /\ pc' = [pc EXCEPT ![Main] = "up_relock"]
    /\ UNCHANGED <<crashed, calls, narg, lockVars, dispVars, sigVars, natVars,
                   propVars, envVars, regVars, pubVars>>
    /\ UNCHANGED moreVars

\* withoutLock: w.Lock() again
UseRelock ==
    /\ ~crashed /\ pc[Main] = "up_relock"
    /\ CanAnnounce
    /\ writer' = Main
    /\ pc' = [pc EXCEPT ![Main] = "up_relocked"]
    /\ UNCHANGED <<crashed, calls, narg, readers, dispVars, sigVars, natVars,
                   propVars, envVars, regVars, pubVars>>
    /\ UNCHANGED moreVars

\* withoutLock returns: on to the next block
UseResume ==
    /\ ~crashed /\ pc[Main] = "up_relocked"
    /\ Owns(Main)
    /\ blk' = blk + 1
    /\ pc' = [pc EXCEPT ![Main] = "up"]
    /\ UNCHANGED <<crashed, calls, narg, lockVars, dispVars, sigVars, natVars,
                   props, last, force, locSize, applied, lastCursor, envVars,
                   regVars, pubVars>>
    /\ UNCHANGED moreVars

\* useProps returns: the deferred w.Unlock().  The call made by doRun is
\* followed by the start of the graphics loop, a work item by the next select.
UsePropsEnd ==
    /\ ~crashed /\ pc[Main] = "up" /\ blk > NumBlocks
    /\ writer' = None
    /\ blk' = 0
    /\ pc' = [pc EXCEPT ![Main] = IF cur.by = Main THEN "spawn" ELSE "select"]
    /\ UNCHANGED <<crashed, calls, narg, readers, dispVars, sigVars, natVars,
                   props, last, force, locSize, applied, lastCursor, envVars,
                   regVars, pubVars>>
    /\ UNCHANGED moreVars

\* doRun: go func() { ... gfxLoop(w, r) }(), from which the application's
\* goroutines use the window; then the run loop is entered.
StartGfx ==
    /\ ~crashed /\ pc[Main] = "spawn"
    /\ pc' = [t \in Threads |->
                CASE t = Main -> "select"
                  [] t = Gfx -> "running"
                  [] t \in Apps -> "idle"
                  [] OTHER -> pc[t]]
    /\ UNCHANGED <<crashed, calls, narg, lockVars, dispVars, sigVars, natVars,
                   propVars, envVars, regVars, pubVars>>
    /\ UNCHANGED moreVars

\* ------------------------------------------------------------------- Init
\* The state in which doRun calls w.useProps(p, true): the window is created
\* with p's size and hidden, the loader goroutine is started, the graphics loop
\* is not.  p is drawn from P, w.last (NewProps()) from L, the native window's
\* position and cursor, the monitor and the extensions from N, M and E.
NativeWindow(size, pos, cursor) ==
    [size |-> size, pos |-> pos, cursor |-> cursor, visible |-> FALSE,
     minimized |-> FALSE]

InitWindow(P, L, N, M, E) ==
    /\ pc = [t \in Threads |->
                CASE t = Main -> "up_lock" [] t = Loader -> "start" [] OTHER -> "unborn"]
    /\ crashed = FALSE
    /\ calls = [a \in Apps |-> 0]
    /\ narg = [a \in Apps |-> Notifier(NoEvents, "c1")]
    /\ writer = None
    /\ readers = {}
    /\ runOnMain = <<>>
    /\ enq = [a \in Apps |-> 0]
    /\ \E p \in P :
        /\ cur = Item("useProps", Main, 0, p, "")
        /\ props = p
        /\ \E n \in N : nat = NativeWindow(p.size, n[1], n[2])
        /\ locSize = p.size
    /\ executed = [a \in Apps |-> <<>>]
    /\ executors = {}
    /\ doneCh = [a \in Apps |-> 0]
    /\ shutdown = 0
    /\ loaderShutdown = 0
    /\ clipboard = ""
    /\ nativeLog = [t \in Threads |-> NoCallYet]
    /\ last \in L
    /\ force = TRUE
    /\ blk = 0
    /\ applied = <<>>
    /\ lastCursor = <<0, 0>>
    /\ pending = <<>>
    /\ raised = <<>>
    /\ userActs = 0
    /\ monitor \in M
    /\ ext \in E
    /\ notifiers = <<>>
    /\ chans = [c \in Chans |-> <<>>]
    /\ lastRecv = [c \in Chans |-> 0]
    /\ pubEv = NoEvent
    /\ pubMask = NoEvents
    /\ pubIdx = 0
    /\ sent = [c \in Chans |-> 0]
    /\ dropped = [c \in Chans |-> 0]
    /\ clock = 0
    /\ ret = "poll"
    /\ sinceGrab = [on |-> FALSE, s |-> <<>>]
    /\ fps = DefaultRate
    /\ watcher = NoWatch
    /\ natTitle = ""
    /\ destroys = 0

\* The values of an error: none, the one of a failed step of doInit, the one of
\* asset.Window.Destroy() and the one of glfw.Terminate().
Errors == {"nil", "initErr", "destroyErr", "terminateErr"}

\* A poller goroutine: where it is, and the channel (by number) its select
\* waits on.
Poller(at, ch) == [pc |-> at, ch |-> ch]

\* glfwinit.go before doInit was ever called.
Uninitialized ==
    [glfwInit |-> FALSE, lib |-> FALSE, pollerExit |-> 0, tok |-> <<>>,
     pollers |-> <<>>, exitLog |-> <<>>, werr |-> "nil", acked |-> "nil",
     term |-> "nil", ret |-> "nil", ncalls |-> 0]

\* glfwinit.go after a doInit that succeeded: the library is initialized,
\* pollerExit is a new channel (number 1), one poller goroutine runs.
Initialized ==
    [Uninitialized EXCEPT !.glfwInit = TRUE, !.lib = TRUE, !.pollerExit = 1,
                          !.tok = <<0>>, !.pollers = <<Poller("tick", 0)>>]

\* The asset loader started by doInit, before its first statement.
InitLoader ==
    /\ ctxCurrent = FALSE
    /\ hpc = [t \in {AssetLoader, Exiter} \cup Requesters |->
                IF t = AssetLoader THEN "start" ELSE "idle"]
    /\ ackedTo = None
    /\ gi = Initialized

InitWith(P, L, N, M, E) == InitWindow(P, L, N, M, E) /\ InitLoader

Monitor(ok, size) == [ok |-> ok, size |-> size]

\* useProps, whoever calls it
UseProps ==
    \/ UsePropsLock
    \/ UsePropsBegin
    \/ UseBlock
    \/ CallReturn
    \/ UseRelock
    \/ UseResume
    \/ UsePropsEnd

SendEvent ==
    \/ SendRLock
    \/ SendIter
    \/ SendEnd

\* ------------------------------------------- the run loop and its dispatcher
Init ==
    InitWith({BaseProps}, {BaseProps}, {<<BaseProps.pos, <<0, 0>>>>},
             {Monitor(TRUE, <<1920, 1080>>)}, {<<FALSE, FALSE>>})

\* The run loop itself.
RunLoop ==
    \/ StartGfx
    \/ MainTick
    \/ TickLock
    \/ TickBody
    \/ MainShutdown
    \/ MainRecv
    \/ SetClipLock
    \/ SetClipBody
    \/ WaitForBody
    \/ \E f \in BOOLEAN : MainRender(f)
    \/ PollReturn

\* The calls of one application goroutine that go through the dispatcher.
Dispatched(a) ==
    \/ \E p \in RunProps : Request(a, p)
    \/ \E s \in ClipStrings : SetClipboard(a, s)
    \/ ClipboardRLock(a)
    \/ ClipboardEnqueue(a)
    \/ ClipboardReturn(a)

\* The whole window with one application goroutine, a graphics loop that may
\* panic, the loader goroutine and a user who asks for the window to close.
Next ==
    \/ UseProps
    \/ RunLoop
    \/ GfxReturn
    \/ GfxPanic
    \/ LoaderStart
    \/ LoaderExit
    \/ UserAct("close", <<>>)
    \/ CloseCallback
    \/ CloseCallbackSend
    \/ SendEvent
    \/ Dispatched("a1")
    \/ Close("a1")
    \/ \E m \in {NoEvents, CloseEvents} : NotifyLock("a1", "c1", m)
    \/ NotifyDelete("a1")
    \/ NotifyAppend("a1")
    \/ Receive("c1")

Spec == Init /\ [][Next]_vars

\* The dispatcher under two application goroutines.
NextDispatch ==
    \/ UseProps
    \/ RunLoop
    \/ \E a \in Apps : Dispatched(a)
    \/ \E a \in Apps : Close(a)

SpecDispatch == Init /\ [][NextDispatch]_vars

\* ------------------------------------------------ the notification registry
\* The application keeps the window open when asked to close it, so that the
\* close callback publishes; the user closes and damages the window.
InitNotify ==
    InitWith({[BaseProps EXCEPT !.shouldClose = FALSE]}, {BaseProps},
             {<<BaseProps.pos, <<0, 0>>>>}, {Monitor(TRUE, <<1920, 1080>>)},
             {<<FALSE, FALSE>>})

NextNotify ==
    \/ UseProps
    \/ StartGfx
    \/ MainRender(TRUE)
    \/ PollReturn
    \/ UserAct("close", <<>>)
    \/ UserAct("refresh", <<>>)
    \/ CloseCallback
    \/ RefreshCallback
    \/ SendEvent
    \/ \E a \in {"a1"} :
        \/ \E c \in Chans, m \in SubMasks \cup {NoEvents} : NotifyLock(a, c, m)
        \/ NotifyDelete(a)
        \/ NotifyAppend(a)
    \/ \E c \in Chans : Receive(c)

SpecNotify == InitNotify /\ [][NextNotify]_vars

\* ------------------------------------------------- the property reconciler
\* Requested properties: the defaults; everything different from the defaults,
\* with a position to be centred; the defaults centred; the defaults minimized
\* with a cursor position.
PropsInputs ==
    {BaseProps,
     MkProps(<<640, 480>>, <<Unset, Unset>>, <<5, 5>>, FALSE, TRUE, FALSE, TRUE, TRUE),
     [BaseProps EXCEPT !.pos = <<Unset, Unset>>],
     [BaseProps EXCEPT !.minimized = TRUE, !.cursor = <<5, 5>>]}

\* What w.last may hold when useProps is entered.
LastInputs ==
    {BaseProps,
     MkProps(<<640, 480>>, <<Unset, Unset>>, <<5, 5>>, FALSE, TRUE, FALSE, TRUE, TRUE)}

InitProps ==
    InitWith(PropsInputs, LastInputs, {<<BaseProps.pos, <<0, 0>>>>},
             {Monitor(TRUE, <<1920, 1080>>), Monitor(FALSE, <<0, 0>>)},
             {<<FALSE, FALSE>>})

\* useProps as doRun calls it and as a Request makes the run loop call it, the
\* callbacks of the native calls it issues.
NextProps ==
    \/ UseProps
    \/ StartGfx
    \/ MainRecv
    \/ MainRender(TRUE)
    \/ PollReturn
    \/ SizeCallback
    \/ PositionCallback
    \/ IconifyCallback
    \/ CursorPosCallback
    \/ SendRLock
    \/ SendEnd
    \/ \E q \in PropsInputs : Request("a1", q)

SpecProps == InitProps /\ [][NextProps]_vars

\* ------------------------------------------------------- vertical sync
\* vsync requested on and off, under each combination of the two extensions
\* that are looked for (never both, each belonging to one platform).
VsyncInputs == {BaseProps, [BaseProps EXCEPT !.vsync = FALSE]}

ExtInputs == {<<FALSE, FALSE>>, <<TRUE, FALSE>>, <<FALSE, TRUE>>}

InitVsync ==
    InitWith(VsyncInputs, {BaseProps}, {<<BaseProps.pos, <<0, 0>>>>},
             {Monitor(TRUE, <<1920, 1080>>)}, ExtInputs)

NextVsync ==
    \/ UseProps
    \/ StartGfx
    \/ MainRecv
    \/ \E q \in VsyncInputs : Request("a1", q)

SpecVsync == InitVsync /\ [][NextVsync]_vars

\* ----------------------------------------------------------- close
\* The application asks for the window to close when the user closes it, or to
\* stay open; it subscribes to close events or to damage events.
CloseInputs == {BaseProps, [BaseProps EXCEPT !.shouldClose = FALSE]}

CloseSubs == {<<"c1", CloseEvents + DamagedEvents>>, <<"c2", DamagedEvents>>}

InitClose ==
    InitWith(CloseInputs, {BaseProps}, {<<BaseProps.pos, <<0, 0>>>>},
             {Monitor(TRUE, <<1920, 1080>>)}, {<<FALSE, FALSE>>})

NextClose ==
    \/ UseProps
    \/ StartGfx
    \/ MainRecv
    \/ MainRender(TRUE)
    \/ PollReturn
    \/ MainShutdown
    \/ UserAct("close", <<>>)
    \/ CloseCallback
    \/ CloseCallbackSend
    \/ SendEvent
    \/ \E q \in CloseInputs : Request("a1", q)
    \/ \E nf \in CloseSubs : NotifyLock("a2", nf[1], nf[2])
    \/ NotifyAppend("a2")
    \/ \E c \in Chans : Receive(c)

SpecClose == InitClose /\ [][NextClose]_vars

\* ----------------------------------------------------------- lock
\* The user resizes and moves the window while the application requests
\* properties and reads the clipboard (Clipboard() holds the read lock while it
\* waits for the run loop).
LockInputs == {BaseProps, [BaseProps EXCEPT !.size = <<640, 480>>]}

InitLock ==
    InitWith({BaseProps}, {BaseProps}, {<<BaseProps.pos, <<0, 0>>>>},
             {Monitor(TRUE, <<1920, 1080>>)}, {<<FALSE, FALSE>>})

NextLock ==
    \/ UseProps
    \/ StartGfx
    \/ MainRecv
    \/ WaitForBody
    \/ MainRender(TRUE)
    \/ PollReturn
    \/ UserAct("size", <<320, 240>>)
    \/ UserAct("pos", <<30, 40>>)
    \/ SizeCallback
    \/ PositionCallback
    \/ SendRLock
    \/ SendEnd
    \/ \E q \in LockInputs : Request("a1", q)
    \/ ClipboardRLock("a2")
    \/ ClipboardEnqueue("a2")
    \/ ClipboardReturn("a2")

SpecLock == InitLock /\ [][NextLock]_vars

\* ----------------------------------------------------------- input
\* The application's subscriptions for key and mouse-button events.
InputSubs == {<<"c1", KeyboardStateEvents>>,
              <<"c2", KeyboardStateEvents + MouseEvents>>}

InitInput ==
    InitWith({BaseProps}, {BaseProps}, {<<BaseProps.pos, <<0, 0>>>>},
             {Monitor(TRUE, <<1920, 1080>>)}, {<<FALSE, FALSE>>})

\* The user presses, holds and releases a key, and presses and releases a
\* mouse button.
NextInput ==
    \/ UseProps
    \/ StartGfx
    \/ MainRender(TRUE)
    \/ PollReturn
    \/ \E a \in {"Press", "Repeat", "Release"} : UserAct("key", a)
    \/ \E a \in {"Press", "Release"} : UserAct("button", a)
    \/ KeyCallback
    \/ MouseButtonCallback
    \/ SendEvent
    \/ \E nf \in InputSubs : NotifyLock("a1", nf[1], nf[2])
    \/ NotifyAppend("a1")
    \/ \E c \in Chans : Receive(c)

SpecInput == InitInput /\ [][NextInput]_vars

\* ----------------------------------------------------------- asset loader
\* asset.withoutContext and asset.exit are unbuffered: a send and a receive
\* happen in one step of both goroutines.

\* A requester about to send on asset.withoutContext: its drop request when it
\* is idle, its resume signal when it holds the acknowledgement.
Sends(r) == hpc[r] \in {"idle", "crit"}

\* Where a requester is after its send: waiting for the acknowledgement after
\* the drop request, idle again after the resume signal.
AfterSend(r) == IF hpc[r] = "idle" THEN "wait" ELSE "idle"

\* assetLoader: asset.Window.MakeContextCurrent() before the loop
AssetStart ==
    /\ hpc[AssetLoader] = "start"
    /\ ctxCurrent' = TRUE
    /\ hpc' = [hpc EXCEPT ![AssetLoader] = "select"]
    /\ UNCHANGED <<ctlVars, lockVars, dispVars, sigVars, natVars, propVars, envVars,
                   regVars, pubVars, sinceGrab, fps, watcher, natTitle, lateVars, ackedTo>>

\* case <-asset.withoutContext: the loader takes what requester r sends
AssetSelectWithout(r) ==
    /\ hpc[AssetLoader] = "select"
    /\ Sends(r)
    /\ hpc' = [hpc EXCEPT ![AssetLoader] = "detach", ![r] = AfterSend(r)]
    /\ UNCHANGED <<ctlVars, lockVars, dispVars, sigVars, natVars, propVars, envVars,
                   regVars, pubVars, sinceGrab, fps, watcher, natTitle, lateVars, ctxCurrent,
                   ackedTo>>

\* glfw.DetachCurrentContext()
AssetDetach ==
    /\ hpc[AssetLoader] = "detach"
    /\ ctxCurrent' = FALSE
    /\ hpc' = [hpc EXCEPT ![AssetLoader] = "ack"]
    /\ UNCHANGED <<ctlVars, lockVars, dispVars, sigVars, natVars, propVars, envVars,
                   regVars, pubVars, sinceGrab, fps, watcher, natTitle, lateVars, ackedTo>>

\* asset.withoutContext <- nil: requester r, waiting for the acknowledgement,
\* receives it
AssetAck(r) ==
    /\ hpc[AssetLoader] = "ack"
    /\ hpc[r] = "wait"
    /\ ackedTo' = r
    /\ hpc' = [hpc EXCEPT ![AssetLoader] = "resume", ![r] = "crit"]
    /\ UNCHANGED <<ctlVars, lockVars, dispVars, sigVars, natVars, propVars, envVars,
                   regVars, pubVars, sinceGrab, fps, watcher, natTitle, lateVars, ctxCurrent>>

\* <-asset.withoutContext: the loader takes what requester r sends
AssetAwaitResume(r) ==
    /\ hpc[AssetLoader] = "resume"
    /\ Sends(r)
    /\ hpc' = [hpc EXCEPT ![AssetLoader] = "attach", ![r] = AfterSend(r)]
    /\ UNCHANGED <<ctlVars, lockVars, dispVars, sigVars, natVars, propVars, envVars,
                   regVars, pubVars, sinceGrab, fps, watcher, natTitle, lateVars, ctxCurrent,
                   ackedTo>>

\* asset.Window.MakeContextCurrent() after the resume signal
AssetAttach ==
    /\ hpc[AssetLoader] = "attach"
    /\ ctxCurrent' = TRUE
    /\ ackedTo' = None
    /\ hpc' = [hpc EXCEPT ![AssetLoader] = "select"]
    /\ UNCHANGED <<ctlVars, lockVars, dispVars, sigVars, natVars, propVars, envVars,
                   regVars, pubVars, sinceGrab, fps, watcher, natTitle, lateVars>>

\* A requester waiting for the acknowledgement receives on the same channel
\* what another requester sends.
RequesterRecv(s, r) ==
    /\ s # r
    /\ hpc[r] = "wait"
    /\ Sends(s)
    /\ hpc' = [hpc EXCEPT ![r] = "crit", ![s] = AfterSend(s)]
    /\ UNCHANGED <<ctlVars, lockVars, dispVars, sigVars, natVars, propVars, envVars,
                   regVars, pubVars, sinceGrab, fps, watcher, natTitle, lateVars, ctxCurrent,
                   ackedTo>>

\* case fn := <-exec: fn()
AssetExec ==
    /\ hpc[AssetLoader] \in {"select", "exec"}
    /\ hpc' = [hpc EXCEPT ![AssetLoader] = IF @ = "select" THEN "exec" ELSE "select"]
    /\ UNCHANGED <<ctlVars, lockVars, dispVars, sigVars, natVars, propVars, envVars,
                   regVars, pubVars, sinceGrab, fps, watcher, natTitle, lateVars, ctxCurrent,
                   ackedTo>>

\* doExit, glfwInit being set: asset.exit <- nil, taken by case <-asset.exit
AssetExit ==
    /\ hpc[AssetLoader] = "select"
    /\ hpc[Exiter] = "idle"
    /\ gi.glfwInit
    /\ hpc' = [hpc EXCEPT ![AssetLoader] = "destroy", ![Exiter] = "wait"]
    /\ UNCHANGED <<ctlVars, lockVars, dispVars, sigVars, natVars, propVars, envVars,
                   regVars, pubVars, sinceGrab, fps, watcher, natTitle, lateVars,
                   ctxCurrent, ackedTo>>

\* The calls of the exit case in their order, each with whether the loader's
\* context is current when it is made (current: whether it is at the first).
ExitCalls(current) ==
    <<<<"glfwDevice.Destroy", current>>, <<"DetachCurrentContext", current>>,
      <<"Window.Destroy", FALSE>>, <<"UnlockOSThread", FALSE>>>>

\* asset.glfwDevice.Destroy(); glfw.DetachCurrentContext();
\* err := asset.Window.Destroy(); runtime.UnlockOSThread()
AssetDestroy ==
    /\ hpc[AssetLoader] = "destroy"
    /\ ctxCurrent' = FALSE
    /\ \E e \in {"nil", "destroyErr"} :
        gi' = [gi EXCEPT !.exitLog = ExitCalls(ctxCurrent), !.werr = e]
    /\ hpc' = [hpc EXCEPT ![AssetLoader] = "exit_ack"]
    /\ UNCHANGED <<ctlVars, lockVars, dispVars, sigVars, natVars, propVars, envVars,
                   regVars, pubVars, sinceGrab, fps, watcher, natTitle, destroys,
                   ackedTo>>

\* asset.exit <- err; return, taken by doExit's err := <-asset.exit
AssetExitAck ==
    /\ hpc[AssetLoader] = "exit_ack"
    /\ hpc[Exiter] = "wait"
    /\ gi' = [gi EXCEPT !.acked = gi.werr,
                        !.exitLog = Append(@, <<"asset.exit <- err", FALSE>>)]
    /\ hpc' = [hpc EXCEPT ![AssetLoader] = "gone", ![Exiter] = "acked"]
    /\ UNCHANGED <<ctlVars, lockVars, dispVars, sigVars, natVars, propVars, envVars,
                   regVars, pubVars, sinceGrab, fps, watcher, natTitle, destroys,
                   ctxCurrent, ackedTo>>

\* ------------------------------------------------------ doInit and doExit
\* The step of doInit that fails, if any.
InitFailures == {"none", "Init", "WindowHint", "CreateWindow", "glfwNewDevice"}

\* doInit on the main thread, failing at step f: nothing when glfwInit is set;
\* else glfw.Init(), the hidden window, the channels, the device, go
\* assetLoader(), pollerExit = make(..), go pollEvents(), glfwInit = true
DoInit(f) ==
    /\ hpc[Exiter] = "idle"
    /\ gi.ncalls < MaxInitCalls
    /\ IF gi.glfwInit
       THEN /\ f = "none"
            /\ gi' = [gi EXCEPT !.ncalls = @ + 1, !.ret = "nil"]
            /\ UNCHANGED <<hpc, ctxCurrent>>
       ELSE IF f = "Init"
       THEN /\ gi' = [gi EXCEPT !.ncalls = @ + 1, !.ret = "initErr"]
            /\ UNCHANGED <<hpc, ctxCurrent>>
       ELSE IF f # "none"
       THEN /\ gi' = [gi EXCEPT !.ncalls = @ + 1, !.ret = "initErr", !.lib = TRUE]
            /\ UNCHANGED <<hpc, ctxCurrent>>
       ELSE /\ gi' = [gi EXCEPT !.ncalls = @ + 1, !.ret = "nil", !.lib = TRUE,
                                !.glfwInit = TRUE,
                                !.tok = Append(@, 0),
                                !.pollerExit = Len(gi.tok) + 1,
                                !.pollers = Append(@, Poller("tick", 0))]
            /\ hpc' = [hpc EXCEPT ![AssetLoader] = "start"]
            /\ ctxCurrent' = FALSE
    /\ UNCHANGED <<ctlVars, lockVars, dispVars, sigVars, natVars, propVars, envVars,
                   regVars, pubVars, sinceGrab, fps, watcher, natTitle, destroys,
                   ackedTo>>

\* doExit on the main thread when glfwInit is not set: return nil
DoExitNoop ==
    /\ hpc[Exiter] = "idle"
    /\ gi.ncalls < MaxInitCalls
    /\ ~gi.glfwInit
    /\ gi' = [gi EXCEPT !.ncalls = @ + 1, !.ret = "nil"]
    /\ UNCHANGED <<ctlVars, lockVars, dispVars, sigVars, natVars, propVars, envVars,
                   regVars, pubVars, sinceGrab, fps, watcher, natTitle, destroys,
                   hsVars>>

\* A doExit that returns what the loader acknowledged with.
doExitAcked(acked, term) == acked

\* What doExit returns: the loader's error, or else glfw.Terminate()'s
doExitErr(acked, term) == IF acked # "nil" THEN acked ELSE term

\* doExit after err := <-asset.exit: return err when it is not nil; else
\* pollerExit <- struct{}{}, err = glfw.Terminate(), glfwInit = false, return err
DoExitReturn ==
    /\ hpc[Exiter] = "acked"
    /\ IF gi.acked # "nil"
       THEN gi' = [gi EXCEPT !.ret = doExitErr(gi.acked, "nil")]
       ELSE /\ gi.tok[gi.pollerExit] < PollerExitCap
            /\ \E e \in {"nil", "terminateErr"} :
                gi' = [gi EXCEPT !.tok[gi.pollerExit] = @ + 1,
                                 !.term = e,
                                 !.lib = FALSE,
                                 !.glfwInit = FALSE,
                                 !.ret = doExitErr(gi.acked, e)]
    /\ hpc' = [hpc EXCEPT ![Exiter] = "idle"]
    /\ UNCHANGED <<ctlVars, lockVars, dispVars, sigVars, natVars, propVars, envVars,
                   regVars, pubVars, sinceGrab, fps, watcher, natTitle, destroys,
                   ctxCurrent, ackedTo>>

\* pollEvents: <-ticker.C, then select { case <-pollerExit: return; default: }
\* on the channel the global pollerExit holds now
PollerConsider(i) ==
    /\ i \in 1..Len(gi.pollers)
    /\ gi.pollers[i].pc = "tick"
    /\ IF gi.tok[gi.pollerExit] > 0
       THEN gi' = [gi EXCEPT !.tok[gi.pollerExit] = @ - 1,
                             !.pollers[i] = Poller("gone", 0)]
       ELSE gi' = [gi EXCEPT !.pollers[i] = Poller("enter", 0)]
    /\ UNCHANGED <<ctlVars, lockVars, dispVars, sigVars, natVars, propVars, envVars,
                   regVars, pubVars, sinceGrab, fps, watcher, natTitle, destroys,
                   hsVars>>

\* pollEvents: the second select is entered, on the channel the global
\* pollerExit holds now
PollerSelect(i) ==
    /\ i \in 1..Len(gi.pollers)
    /\ gi.pollers[i].pc = "enter"
    /\ gi' = [gi EXCEPT !.pollers[i] = Poller("submit", gi.pollerExit)]
    /\ UNCHANGED <<ctlVars, lockVars, dispVars, sigVars, natVars, propVars, envVars,
                   regVars, pubVars, sinceGrab, fps, watcher, natTitle, destroys,
                   hsVars>>

\* pollEvents: case <-pollerExit: return
PollerExit(i) ==
    /\ i \in 1..Len(gi.pollers)
    /\ gi.pollers[i].pc = "submit"
    /\ gi.tok[gi.pollers[i].ch] > 0
    /\ gi' = [gi EXCEPT !.tok[gi.pollers[i].ch] = @ - 1,
                        !.pollers[i] = Poller("gone", 0)]
    /\ UNCHANGED <<ctlVars, lockVars, dispVars, sigVars, natVars, propVars, envVars,
                   regVars, pubVars, sinceGrab, fps, watcher, natTitle, destroys,
                   hsVars>>

\* pollEvents: case MainLoopChan <- pollFunc, and the loop goes round
PollerSubmit(i) ==
    /\ i \in 1..Len(gi.pollers)
    /\ gi.pollers[i].pc = "submit"
    /\ gi' = [gi EXCEPT !.pollers[i] = Poller("tick", 0)]
    /\ UNCHANGED <<ctlVars, lockVars, dispVars, sigVars, natVars, propVars, envVars,
                   regVars, pubVars, sinceGrab, fps, watcher, natTitle, destroys,
                   hsVars>>

\* Before doInit was ever called: no asset loader, no poller.
InitInit ==
    /\ InitWindow({BaseProps}, {BaseProps}, {<<BaseProps.pos, <<0, 0>>>>},
                  {Monitor(TRUE, <<1920, 1080>>)}, {<<FALSE, FALSE>>})
    /\ ctxCurrent = FALSE
    /\ hpc = [t \in {AssetLoader, Exiter} \cup Requesters |->
                IF t = AssetLoader THEN "unborn" ELSE "idle"]
    /\ ackedTo = None
    /\ gi = Uninitialized

NextInit ==
    \/ \E f \in InitFailures : DoInit(f)
    \/ DoExitNoop
    \/ AssetStart
    \/ AssetExec
    \/ AssetExit
    \/ AssetDestroy
    \/ AssetExitAck
    \/ DoExitReturn
    \/ \E i \in 1..MaxInitCalls :
        \/ PollerConsider(i)
        \/ PollerSelect(i)
        \/ PollerExit(i)
        \/ PollerSubmit(i)

SpecInit == InitInit /\ [][NextInit]_vars

InitHandoff == InitWith({BaseProps}, {BaseProps}, {<<BaseProps.pos, <<0, 0>>>>},
                        {Monitor(TRUE, <<1920, 1080>>)}, {<<FALSE, FALSE>>})

NextHandoff ==
    \/ AssetStart
    \/ \E r \in Requesters : AssetSelectWithout(r)
    \/ AssetDetach
    \/ \E r \in Requesters : AssetAck(r)
    \/ \E r \in Requesters : AssetAwaitResume(r)
    \/ AssetAttach
    \/ \E s, r \in Requesters : RequesterRecv(s, r)
    \/ AssetExec
    \/ AssetExit
    \/ AssetDestroy
    \/ AssetExitAck

SpecHandoff == InitHandoff /\ [][NextHandoff]_vars

\* ----------------------------------------------------------- title
\* The renderer's clock measures another frame rate.
FrameRate(r) ==
    /\ ~crashed
    /\ r # fps
    /\ fps' = r
    /\ UNCHANGED <<ctlVars, lockVars, dispVars, sigVars, natVars, propVars, envVars,
                   regVars, pubVars, sinceGrab, watcher, natTitle, lateVars, hsVars>>

\* Frame rates in halves: 0, 42, 42.5 and 60 per second.
Rates == {0, 84, 85, 120}

\* Titles with the placeholder, without it and with two of them.
Titles == {DefaultTitle, <<"Game">>, <<"{FPS}", " ", "{FPS}">>}

TitleInputs == {[BaseProps EXCEPT !.title = t] : t \in Titles}

InitTitle ==
    InitWith(TitleInputs, {BaseProps}, {<<BaseProps.pos, <<0, 0>>>>},
             {Monitor(TRUE, <<1920, 1080>>)}, {<<FALSE, FALSE>>})

NextTitle ==
    \/ UseProps
    \/ StartGfx
    \/ MainTick
    \/ TickLock
    \/ TickBody
    \/ MainRecv
    \/ \E r \in Rates : FrameRate(r)
    \/ \E q \in TitleInputs : Request("a1", q)

SpecTitle == InitTitle /\ [][NextTitle]_vars

\* ----------------------------------------------------------- cursor grab
\* Cursor grab requested on and off, with and without a cursor position; the
\* user moves the cursor.
GrabInputs ==
    {BaseProps,
     [BaseProps EXCEPT !.grabbed = TRUE],
     [BaseProps EXCEPT !.grabbed = TRUE, !.cursor = <<5, 5>>]}

CursorSamples == {<<3, 4>>, <<7, 9>>}

InitCursor ==
    InitWith({BaseProps, [BaseProps EXCEPT !.grabbed = TRUE]}, {BaseProps},
             {<<BaseProps.pos, <<0, 0>>>>}, {Monitor(TRUE, <<1920, 1080>>)},
             {<<FALSE, FALSE>>})

NextCursor ==
    \/ UseProps
    \/ StartGfx
    \/ MainRecv
    \/ MainRender(TRUE)
    \/ PollReturn
    \/ \E xy \in CursorSamples : UserAct("cursor", xy)
    \/ CursorPosCallback
    \/ SendRLock
    \/ SendEnd
    \/ \E q \in GrabInputs : Request("a1", q)

SpecCursor == InitCursor /\ [][NextCursor]_vars

\* ================================================================= claims

\* The run-loop thread has called Lock() and cannot go on before the readers
\* present have left.
MainWaitsForLock ==
    /\ pc[Main] \in {"tick", "sc", "up_begin", "up_relocked"}
    /\ writer = Main
    /\ readers # {}

\* Goroutine a holds the read lock inside Clipboard() and waits for the run loop
\* to execute its work item.
WaitsForRunLoop(a) ==
    /\ pc[a] = "clip_wait"
    /\ a \in readers
    /\ doneCh[a] = 0

\* C1: every native call that concerns the primary window or the library as a
\* whole is executed by the run-loop thread, never by an application goroutine
\* or by the graphics loop's goroutine (its panic handler included); the loader
\* goroutine only makes and releases its own context.
C1_NativeCallsOnRunLoopThread ==
    /\ \A t \in Threads : nativeLog[t] \in PrimaryCalls => t = Main
    /\ nativeLog[Loader] \in ContextCalls \cup {NoCallYet}

\* C2: every work item is executed at most once, by the run loop only, and the
\* items of one goroutine are executed in the order in which it enqueued them.
C2_DispatchOrder ==
    /\ executors \subseteq {Main}
    /\ \A a \in Apps :
        /\ \A i \in 1..Len(executed[a]) : executed[a][i] \in 1..enq[a]
        /\ \A i, j \in 1..Len(executed[a]) : i < j => executed[a][i] < executed[a][j]

\* Both goroutines had two work items executed, and items of both were in the
\* queue together before.
C2_Witness ==
    /\ Len(executed["a1"]) = 2
    /\ Len(executed["a2"]) = 2

\* C3: no state has the run-loop thread waiting for the window's lock while the
\* holder of that lock waits for the run loop to execute its work item (so that
\* every Clipboard() call returns).
C3_NoLockCycle ==
    ~(MainWaitsForLock /\ \E a \in readers : WaitsForRunLoop(a))

\* C4: the run-loop thread is never blocked inside Close: it never stands at the
\* send on w.shutdown, which only it receives from, with the channel full.
C4_RunLoopNeverStuckInClose ==
    ~(pc[Main] = "close_send" /\ shutdown = ShutdownCap)

\* ------------------------------------------------------------ registry
\* s without the subscriptions of channel ch, the others in their order.
Without(s, ch) ==
    LET keep(nf) == nf.ch # ch IN SelectSeq(s, keep)

\* Channel c has no subscription.
NoSub(c) == \A i \in 1..Len(notifiers) : notifiers[i].ch # c

\* The event type t (one bit) is a member of mask.
Includes(mask, t) == (mask \div t) % 2 = 1

\* The subscriptions of channel c that the event being published matches.
Matching(c) ==
    {i \in 1..Len(notifiers) :
        notifiers[i].ch = c /\ Includes(notifiers[i].mask, pubMask)}

\* This step ends goroutine a's call Notify(ch, NoEvents).
UnsubscribeStep(a) ==
    pc[a] = "notify" /\ pc'[a] # "notify" /\ narg[a].mask = NoEvents

\* This step ends goroutine a's call Notify(ch, m), m # NoEvents.
SubscribeStep(a) ==
    pc[a] = "notify" /\ pc'[a] # "notify" /\ narg[a].mask # NoEvents

\* This step is one iteration of sendEvent's loop.
IterStep == pc[Main] = "send" /\ pubIdx' = pubIdx + 1

\* sendEvent has visited every subscription.
PublishDone == pc[Main] = "send" /\ pubIdx > Len(notifiers)

\* C5: Notify(ch, NoEvents) terminates normally and leaves the registry without
\* any subscription of ch, the subscriptions of other channels present with
\* their masks and in their order (so unchanged when ch had none).
C5_UnsubscribeRemovesAll ==
    [][\A a \in Apps :
        UnsubscribeStep(a) =>
            /\ pc'[a] = "idle"
            /\ notifiers' = Without(notifiers, narg[a].ch)]_vars

\* C6: Notify(ch, m), m # NoEvents, always appends one subscription; a publish
\* attempts each channel once per subscription of it whose mask includes the
\* event's type, and each attempt with free capacity enqueues the event once.
C6_FanOutPerSubscription ==
    /\ [](PublishDone =>
            \A c \in Chans : sent[c] + dropped[c] = Cardinality(Matching(c)))
    /\ [][\A a \in Apps :
            SubscribeStep(a) => notifiers' = Append(notifiers, narg[a])]_vars
    /\ [][IterStep =>
            \A c \in Chans :
                /\ sent'[c] = sent[c] + 1 <=> chans'[c] = Append(chans[c], pubEv)
                /\ sent'[c] = sent[c] => chans'[c] = chans[c]
                /\ dropped'[c] # dropped[c] => Len(chans[c]) = ChanCap(c)]_vars

\* One channel is subscribed twice and one event was delivered to it twice.
C6_Witness ==
    /\ PublishDone
    /\ Cardinality(Matching("c2")) = 2
    /\ sent["c2"] = 2

\* C7: a publish never waits for a subscriber: with a matching subscription
\* whose channel is at capacity the loop goes on, that channel's contents are
\* unchanged, and a matching subscription whose channel has room receives.
C7_PublishNeverBlocks ==
    /\ []((pc[Main] = "send" /\ ~crashed) => ENABLED (SendIter \/ SendEnd))
    /\ [][IterStep =>
            LET nf == notifiers[pubIdx] IN
            Includes(nf.mask, pubMask) =>
                IF Len(chans[nf.ch]) = ChanCap(nf.ch)
                THEN chans' = chans
                ELSE chans' = [chans EXCEPT ![nf.ch] = Append(@, pubEv)]]_vars

\* A publish found the channel of an earlier subscription full, and a later
\* subscription with room received the event.
C7_Witness ==
    /\ PublishDone
    /\ dropped["c1"] >= 1
    /\ sent["c2"] >= 1
    /\ \E i, j \in 1..Len(notifiers) :
        i < j /\ notifiers[i].ch = "c1" /\ notifiers[j].ch = "c2"

\* C8: the events of a channel are buffered, and so received, in the order in
\* which they were published: publish stamps never decrease along a buffer, and
\* none is older than the event received last.
C8_PublishOrderPerChannel ==
    \A c \in Chans :
        /\ \A i, j \in 1..Len(chans[c]) : i < j => chans[c][i].T <= chans[c][j].T
        /\ chans[c] # <<>> => lastRecv[c] <= Head(chans[c]).T
        /\ \A i \in 1..Len(chans[c]) : chans[c][i].T \in 1..clock

\* Channel c2 holds two events in the order of their publication, the second
\* of which channel c1, being full, has missed.
C8_Witness ==
    /\ PublishDone
    /\ Len(chans["c2"]) = 2
    /\ chans["c2"][1].T < chans["c2"][2].T
    /\ chans["c1"] # <<>>
    /\ dropped["c1"] >= 1

\* C9: when Notify(ch, NoEvents) returns, ch has no subscription and the events
\* in the channels are left where they are; to a channel without subscription
\* no step adds an event.
C9_UnsubscribeImmediate ==
    /\ [][\A a \in Apps :
            (UnsubscribeStep(a) /\ pc'[a] = "idle") =>
                /\ \A i \in 1..Len(notifiers') : notifiers'[i].ch # narg[a].ch
                /\ chans' = chans]_vars
    /\ [][\A c \in Chans : NoSub(c) => Len(chans'[c]) <= Len(chans[c])]_vars

\* Channel c1 was unsubscribed with an event in it; an event of the same type
\* published later went to the other channel only.
C9_Witness ==
    /\ NoSub("c1")
    /\ chans["c1"] # <<>>
    /\ PublishDone
    /\ pubEv.type = Head(chans["c1"]).type
    /\ pubEv.T > chans["c1"][Len(chans["c1"])].T
    /\ sent["c2"] >= 1

\* ---------------------------------------------------------- reconciler
\* useProps has gone through all its blocks and is about to return.
UsePropsDone == ~crashed /\ pc[Main] = "up" /\ blk > NumBlocks

\* C10: when useProps completes, w.last equals the requested properties in
\* every reconcilable field, whatever w.last was before, whatever was requested
\* and whether forced or not, callbacks during its native calls included.
C10_LastEqualsRequested ==
    UsePropsDone => \A k \in 1..NumBlocks : last[Fields[k]] = props[Fields[k]]

\* A request without force, with w.last different before, has completed; it
\* asked for a centred position, which the position callback reported during
\* SetPosition.
C10_Witness ==
    /\ UsePropsDone
    /\ ~force
    /\ cur.p.pos = <<Unset, Unset>>
    /\ props.pos # <<Unset, Unset>>
    /\ Len(applied) > 2

\* This step is useProps taking over the requested properties and updating
\* the title.
BeginStep == pc[Main] = "up_begin" /\ pc'[Main] = "up"

\* This step is useProps going through the block of field Fields[blk].
BlockStep ==
    /\ pc[Main] = "up" /\ blk <= NumBlocks
    /\ blk' = blk + 1 \/ pc'[Main] = "incall"

\* The requested value of block k's field differs from the last one.
Differs(k) == props[Fields[k]] # last[Fields[k]]

\* The native calls that change block k's field.
CallNames(k) ==
    CASE k = 1 -> {"SetSize"}
      [] k = 2 -> {"SetPosition"}
      [] k = 3 -> {"SetCursorPosition"}
      [] k = 4 -> {"Show", "Hide"}
      [] k = 5 -> {"Iconify", "Restore"}
      [] k = 6 -> {"SwapInterval"}
      [] OTHER -> {"SetInputMode"}

\* This step issues exactly one native call, one that changes block k's field.
IssuesOne(k) ==
    /\ Len(applied') = Len(applied) + 1
    /\ SubSeq(applied', 1, Len(applied)) = applied
    /\ applied'[Len(applied')][1] \in CallNames(k)

\* The requested cursor position is the one that means none.
NoCursor == props.cursor[1] = Unset \/ props.cursor[2] = Unset

\* C11 as stated: without force an application issues one native call for each
\* field that differs from last and none for a field that does not, the title
\* included, so that requested properties equal to last issue no call at all;
\* with force every field is applied.
C11_MinimalDiff ==
    /\ [][BeginStep =>
            IF force \/ cur.p.title # last.title
            THEN applied' = <<<<"SetTitle", <<>>>>>>
            ELSE applied' = <<>>]_vars
    /\ [][BlockStep =>
            IF force \/ Differs(blk) THEN IssuesOne(blk) ELSE applied' = applied]_vars

\* C11 amended: every application sets the title; after that it issues one
\* native call for each field that differs from last (or for each field, with
\* force), except for a cursor position that means none, and no other call.
C11_MinimalDiffButTitle ==
    /\ [][BeginStep => applied' = <<<<"SetTitle", <<>>>>>>]_vars
    /\ [][BlockStep =>
            IF (force \/ Differs(blk)) /\ ~(blk = 3 /\ NoCursor)
            THEN IssuesOne(blk)
            ELSE applied' = applied]_vars
    /\ []((UsePropsDone /\ ~force /\ Len(applied) = 1) => applied[1][1] = "SetTitle")

\* A request equal to last has been applied without force: the title was set
\* and nothing else; before, a forced application issued a call for each field.
C11_Witness ==
    /\ UsePropsDone
    /\ ~force
    /\ applied = <<<<"SetTitle", <<>>>>>>
    /\ \A k \in 1..NumBlocks : ~Differs(k)

\* The argument of the native call this step issues.
IssuedArg == applied'[Len(applied')][2]

\* C12: a requested position of (-1, -1), when applied, reaches SetPosition as
\* (vmWidth/2 - width/2, vmHeight/2 - height/2), from the monitor's video mode
\* and the size requested in the same application (1920x1080 and 800x600 give
\* (560, 240)); any other requested position is passed unchanged.
C12_CentredPosition ==
    [][(BlockStep /\ blk = 2 /\ applied' # applied) =>
        /\ applied'[Len(applied')][1] = "SetPosition"
        /\ (cur.p.pos = <<Unset, Unset>> /\ monitor.ok) =>
            /\ IssuedArg[1] = (monitor.size[1] \div 2) - (cur.p.size[1] \div 2)
            /\ IssuedArg[2] = (monitor.size[2] \div 2) - (cur.p.size[2] \div 2)
            /\ (monitor.size = <<1920, 1080>> /\ cur.p.size = <<800, 600>>) =>
                    IssuedArg = <<560, 240>>
        /\ cur.p.pos # <<Unset, Unset>> => IssuedArg = cur.p.pos]_vars

\* SetPosition is running with (560, 240) for a requested position of (-1, -1).
C12_Witness ==
    /\ pc[Main] = "incall" /\ blk = 2
    /\ cur.p.pos = <<Unset, Unset>>
    /\ cur.p.size = <<800, 600>>
    /\ applied[Len(applied)] = <<"SetPosition", <<560, 240>>>>

\* C14: when the graphics loop has panicked, glfw.Terminate has been invoked
\* exactly once over the whole run (a goroutine's Terminate is the last native
\* call it makes).
C14_TerminateOnceUnderPanic ==
    pc[Gfx] = "panicked" =>
        Cardinality({t \in Threads : nativeLog[t] = "Terminate"}) = 1

\* No reconciliation is in progress and every callback the native library has
\* produced so far has been processed.
Quiescent ==
    /\ ~crashed
    /\ pc[Main] = "select"
    /\ pending = <<>> /\ raised = <<>>

\* C17: whenever no reconciliation is in progress and no callback is
\* outstanding, w.last holds the native window's actual size, position and
\* minimized state.
C17_LastReflectsNative ==
    Quiescent =>
        /\ last.size = nat.size
        /\ last.pos = nat.pos
        /\ last.minimized = nat.minimized

\* The place of a native call in the order title, size, position, cursor
\* position, visibility, minimized, vertical sync, cursor-grab mode.
Rank(name) ==
    CASE name = "SetTitle" -> 0
      [] name = "SetSize" -> 1
      [] name = "SetPosition" -> 2
      [] name = "SetCursorPosition" -> 3
      [] name \in {"Show", "Hide"} -> 4
      [] name \in {"Iconify", "Restore"} -> 5
      [] name = "SwapInterval" -> 6
      [] OTHER -> 7

\* C18: the native calls of one application are issued in the order title,
\* size, position, cursor position, visibility, minimized, vertical sync,
\* cursor-grab mode, whichever of them are issued.
C18_FixedOrder ==
    \A i, j \in 1..Len(applied) :
        i < j => Rank(applied[i][1]) < Rank(applied[j][1])

\* An application without force has issued the calls of some fields only, the
\* visibility call and the minimized call among them.
C18_Witness ==
    /\ UsePropsDone
    /\ ~force
    /\ Len(applied) \in 3..7
    /\ \E i, j \in 1..Len(applied) :
        applied[i][1] \in {"Show", "Hide"} /\ applied[j][1] \in {"Iconify", "Restore"}

\* C19: each time the vsync field is applied the swap interval passed is -1
\* when vsync is requested and an adaptive-vsync extension is present, 1 when
\* vsync is requested and none is, 0 when vsync is not requested; no
\* swap-interval call is issued when vsync is unchanged and force is unset.
C19_SwapInterval ==
    [][(BlockStep /\ blk = 6) =>
        IF force \/ props.vsync # last.vsync
        THEN applied' = Append(applied,
                <<"SwapInterval",
                  CASE ~props.vsync -> 0
                    [] props.vsync /\ (ext[1] \/ ext[2]) -> -1
                    [] OTHER -> 1>>)
        ELSE applied' = applied]_vars

\* Without force, vsync was switched on where an extension is present: the
\* swap interval passed is -1.
C19_Witness ==
    /\ pc[Main] = "up" /\ blk = 7
    /\ ~force
    /\ ext # <<FALSE, FALSE>>
    /\ applied # <<>>
    /\ applied[Len(applied)] = <<"SwapInterval", -1>>

\* This step is the cursor-position callback being called.
CursorStep ==
    /\ clock' = clock + 1
    /\ Arriving # <<>> /\ Head(Arriving).kind = "cursor"

\* The callback that is called in this step publishes an event.
Emits == pc'[Main] = "send_rlock"

\* C13: while cursor grab is requested, the first cursor callback after the
\* application that switched it on publishes nothing, and every later one
\* publishes a CursorMoved with Delta set whose (X, Y) is its sample minus the
\* sample before; while grab is not requested every cursor callback publishes
\* the absolute position.
C13_GrabDeltas ==
    [][CursorStep =>
        LET xy == Head(Arriving).val IN
        /\ (props.grabbed /\ sinceGrab.on /\ sinceGrab.s = <<>>) =>
                ~Emits /\ pubEv' = pubEv /\ chans' = chans
        /\ (props.grabbed /\ sinceGrab.on /\ sinceGrab.s # <<>>) =>
                /\ Emits
                /\ pubEv'.type = CursorMovedEvents
                /\ pubEv'.val = <<xy[1] - sinceGrab.s[1][1],
                                  xy[2] - sinceGrab.s[1][2], TRUE>>
        /\ ~props.grabbed =>
                /\ Emits
                /\ pubEv'.type = CursorMovedEvents
                /\ pubEv'.val = <<xy[1], xy[2], FALSE>>]_vars

\* Cursor grab is switched on; the first sample after that,
\* (3, 4), published nothing and the second, (7, 9), publishes the delta (4, 5).
C13_Witness ==
    /\ pc[Main] = "send_rlock"
    /\ props.grabbed /\ sinceGrab.on
    /\ sinceGrab.s = <<<<7, 9>>>>
    /\ pubEv.val = <<4, 5, TRUE>>

\* This step is the body of a tick: updateTitle under the lock.
TickStep == pc[Main] = "tick" /\ pc'[Main] = "select"

\* C16: a tick gives the native window exactly one title, the requested title
\* with the placeholder replaced by the frame rate rounded up and "FPS" (so
\* "Game {FPS}" at 42 frames a second gives "Game 42FPS"), and changes neither
\* the requested nor the last properties.
C16_TickSetsTitle ==
    [][TickStep =>
        /\ nativeLog'[Main] = "SetTitle"
        /\ natTitle' = updateTitle(props.title, fps)
        /\ (props.title = <<"Game ", "{FPS}">> /\ fps = 84) => natTitle' = "Game 42FPS"
        /\ (props.title = <<"Game ", "{FPS}">> /\ fps = 85) => natTitle' = "Game 43FPS"
        /\ (props.title = <<"Game">>) => natTitle' = "Game"
        /\ props' = props
        /\ last' = last
        /\ applied' = applied]_vars

\* A tick at 42.5 frames a second has just set the title "Game 43FPS" after
\* the application had set it at another rate.
C16_Witness ==
    /\ pc[Main] = "select"
    /\ nativeLog[Main] = "SetTitle"
    /\ props.title = <<"Game ", "{FPS}">>
    /\ fps = 85
    /\ natTitle = "Game 43FPS"

\* C15: the asset loader's context is not current while a requester is
\* between receiving the acknowledgement and sending its resume signal, for any
\* number of requesters.
C15_HandoffExclusion ==
    \A r \in Requesters : hpc[r] = "crit" => ~ctxCurrent

\* The watcher entry a key or mouse-button event is about.
EntryOf(e) == IF e.type = KeyboardStateEvents THEN "key" ELSE "button"

\* This step is the key callback being called for a key repeat.
RepeatStep ==
    /\ clock' = clock + 1
    /\ Arriving # <<>>
    /\ Head(Arriving).kind = "key" /\ Head(Arriving).val = "Repeat"

\* C20: whenever a key or mouse-button event is in a subscriber's channel, the
\* watcher's entry for that key or button was written by the input of that
\* event, and then holds the event's state, or by a later input; a key callback
\* for a repeat changes neither the watcher nor any channel, and sends nothing.
C20_WatcherBeforeEvent ==
    /\ [](\A c \in Chans : \A i \in 1..Len(chans[c]) :
            LET e == chans[c][i] IN
            e.type \in {KeyboardStateEvents, MouseEvents} =>
                /\ watcher[EntryOf(e)].T >= e.T
                /\ watcher[EntryOf(e)].T = e.T => watcher[EntryOf(e)].state = e.val[1])
    /\ [][RepeatStep => watcher' = watcher /\ chans' = chans /\ pc' = pc]_vars

\* The event of a key press is still in a subscriber's channel after the key
\* was released: the watcher holds the later state.
C20_Witness ==
    \E c \in Chans :
        /\ chans[c] # <<>>
        /\ Head(chans[c]).type = KeyboardStateEvents
        /\ Head(chans[c]).val = <<"Down">>
        /\ watcher["key"].state = "Up"
        /\ watcher["key"].T > Head(chans[c]).T

\* This step is the close callback being called.
CloseStep ==
    /\ clock' = clock + 1
    /\ Arriving # <<>> /\ Head(Arriving).kind = "close"

\* This step is the close callback's w.Close() completing.
CloseSendStep == pc[Main] = "close_send" /\ pc'[Main] # "close_send"

\* C21: a close callback with the requested should-close flag set signals
\* shutdown and publishes nothing (channels only ever gain the event being
\* published); with the flag clear it publishes a Close event, which is offered
\* to every matching subscription and to no other, and signals no shutdown.
C21_CloseOrNotify ==
    /\ [][CloseStep =>
            IF props.shouldClose
            THEN /\ pc'[Main] = "close_send"
                 /\ pubEv' = pubEv /\ chans' = chans
            ELSE /\ pc'[Main] = "send_rlock"
                 /\ pubEv' = Event(CloseEvents, clock', <<>>)
                 /\ pubMask' = CloseEvents
                 /\ shutdown' = shutdown]_vars
    /\ [][CloseSendStep =>
            /\ shutdown' = shutdown + 1
            /\ pubEv' = pubEv /\ chans' = chans
            /\ pc'[Main] = ret]_vars
    /\ [][\A c \in Chans : Len(chans'[c]) > Len(chans[c]) =>
            /\ pc[Main] = "send"
            /\ chans'[c] = Append(chans[c], pubEv)]_vars
    /\ [][(pc[Main] \in {"send_rlock", "send"} /\ pubEv.type = CloseEvents) =>
            shutdown' = shutdown]_vars
    /\ []((PublishDone /\ pubEv.type = CloseEvents) =>
            \A c \in Chans : sent[c] + dropped[c] = Cardinality(Matching(c)))

\* A close callback with the flag clear has put a Close event in the channel
\* of c1; the application then requested the flag set and the next close
\* callback signalled shutdown, the event still being the only one.
C21_Witness ==
    /\ props.shouldClose
    /\ shutdown = 1
    /\ pc[Main] = "poll"
    /\ Len(chans["c1"]) = 1
    /\ chans["c1"][1].type = CloseEvents
    /\ clock > chans["c1"][1].T

\* This step consumes the shutdown signal.
ShutdownStep == pc[Main] = "select" /\ shutdown' = shutdown - 1

\* C22: the step that consumes the shutdown signal signals the loader,
\* destroys the native window and returns from the run loop; the window is
\* destroyed at most once, and once the run loop has returned it executes no
\* work item, no rendering request and no title tick, whatever is still queued.
C22_TeardownOnce ==
    /\ [][ShutdownStep =>
            /\ loaderShutdown' = loaderShutdown + 1
            /\ destroys' = destroys + 1
            /\ pc'[Main] = "returned"
            /\ runOnMain' = runOnMain /\ executed' = executed]_vars
    /\ [](destroys <= 1 /\ (destroys = 1 <=> pc[Main] = "returned"))
    /\ [][pc[Main] = "returned" =>
            /\ pc'[Main] = "returned"
            /\ executed' = executed /\ cur' = cur
            /\ Len(runOnMain') >= Len(runOnMain)
            /\ natTitle' = natTitle
            /\ nativeLog'[Main] = nativeLog[Main]
            /\ propVars' = propVars
            /\ clipboard' = clipboard
            /\ destroys' = destroys]_vars

\* The run loop has returned while a work item was still queued.
C22_Witness ==
    /\ pc[Main] = "returned"
    /\ destroys = 1
    /\ runOnMain # <<>>

\* The asset-loader goroutine is alive.
LoaderAlive == hpc[AssetLoader] \notin {"unborn", "gone"}

\* The poller goroutines that are alive.
PollersAlive == {i \in 1..Len(gi.pollers) : gi.pollers[i].pc # "gone"}

\* C25: between the calls of doInit and doExit, glfwInit is set exactly when
\* the asset loader and the event poller are alive and the library is
\* initialized; at most one poller is alive at any time; and a doExit that
\* finds glfwInit set finds an asset loader to take its exit signal.
C25_InitFlagExact ==
    /\ hpc[Exiter] = "idle" =>
        (gi.glfwInit <=> (LoaderAlive /\ PollersAlive # {} /\ gi.lib))
    /\ Cardinality(PollersAlive) <= 1
    /\ (hpc[Exiter] = "idle" /\ gi.glfwInit) => LoaderAlive

\* What the asset loader has done when it is about to acknowledge the exit.
ExitOrder ==
    <<<<"glfwDevice.Destroy", TRUE>>, <<"DetachCurrentContext", TRUE>>,
      <<"Window.Destroy", FALSE>>, <<"UnlockOSThread", FALSE>>>>

\* The loader's part of the exit: the device is destroyed with the context
\* current, then the context is detached, the window destroyed and the thread
\* unlocked, each once; the acknowledgement carries the error of the window's
\* destruction; no loader function runs after the exit signal.
LoaderExitsInOrder ==
    /\ [](hpc[AssetLoader] = "exit_ack" => (gi.exitLog = ExitOrder /\ ~ctxCurrent))
    /\ [][(hpc[AssetLoader] = "select" /\ hpc'[AssetLoader] = "destroy") =>
            ctxCurrent]_vars
    /\ [][(hpc[AssetLoader] = "exit_ack" /\ hpc'[AssetLoader] # "exit_ack") =>
            /\ hpc'[AssetLoader] = "gone"
            /\ gi'.acked = gi.werr
            /\ gi'.exitLog = Append(ExitOrder, <<"asset.exit <- err", FALSE>>)]_vars
    /\ [][hpc[AssetLoader] \in {"destroy", "exit_ack"} =>
            hpc'[AssetLoader] \in {"destroy", "exit_ack", "gone"}]_vars

\* This step is doExit returning after the loader's acknowledgement.
ExitReturnStep == hpc[Exiter] = "acked" /\ hpc'[Exiter] = "idle"

\* C23 as stated: the loader exits in order, and doExit returns the error the
\* loader acknowledged with.
C23_ExitReturnsAcked ==
    /\ LoaderExitsInOrder
    /\ [][ExitReturnStep => gi'.ret = gi.acked]_vars

\* C23 amended: the loader exits in order, and doExit returns the error the
\* loader acknowledged with when there is one, and otherwise the result of
\* glfw.Terminate().
C23_ExitReturnsAckedOrTerminate ==
    /\ LoaderExitsInOrder
    /\ [][ExitReturnStep =>
            IF gi.acked # "nil"
            THEN gi'.ret = gi.acked /\ gi'.glfwInit = gi.glfwInit
            ELSE gi'.ret = gi'.term /\ ~gi'.glfwInit]_vars

\* The loader acknowledged the exit without an error, glfw.Terminate() failed
\* and doExit returned that failure.
C23_Witness ==
    /\ hpc[Exiter] = "idle"
    /\ hpc[AssetLoader] = "gone"
    /\ Len(gi.exitLog) = 5
    /\ gi.acked = "nil"
    /\ gi.ret = "terminateErr"

\* C24: every step that writes a field of the requested or the last
\* properties is taken by the run loop holding the write lock, no other
\* goroutine holding the read lock.
C24_WritesUnderWriteLock ==
    [][(props' # props \/ last' # last) =>
            (writer = Main /\ readers \ {Main} = {})]_vars

====
